-------------------------- MODULE FaceTrack_proofs --------------------------
(***************************************************************************)
(* Proofs about the face tracker of a session and the tracker of           *)
(* track-by-detect mode inside it, for any limits, intervals, boxes,       *)
(* matchings and failures.                                                 *)
(*                                                                         *)
(* LostExpire is not inductive: that a lost track leaves the list in time  *)
(* rests on the removed ids of the frame before, which must hold every     *)
(* track that has expired (ExpiredAreRemoved).  DistinctIds is not, since  *)
(* the ids of new faces differ from those of old ones only because all old *)
(* ones have been given out (Fits).  DetectionIsDue is not either: what    *)
(* grows from frame to frame is the index, so the frames without detection *)
(* are compared with its remainder.                                        *)
(***************************************************************************)
EXTENDS FaceTrack, FiniteSetTheorems, TLAPS

-----------------------------------------------------------------------------
(* The tracker of track-by-detect mode. *)

ExpiredAreRemoved ==
    \A id \in LostIds :
        frameId - lostStracks[id].frame_id > MaxTimeLost => id \in removedStracks

ListsInv == TypeOK /\ OneIdentity /\ SeenTwice /\ LostExpire /\ ExpiredAreRemoved

\* What a step does, with its choices: the tracks found, the number of tracks
\* started, and the duplicates taken out.
Choices(found, n, a, b) ==
    /\ found \subseteq TrackedIds \cup LostIds /\ n \in Nat
    /\ trackedStracks' = Without(Continued(found, Fresh(n)), a)
    /\ lostStracks' = Without(LostNow(found), b)
    /\ removedStracks' = (Unconfirmed \ found) \cup Expired(found)
    /\ nextTrackId' = nextTrackId + n
    /\ frameId' = frameId + 1

LEMMA UpdateChooses ==
    ASSUME NEW confident \in Nat, NEW weak \in Nat, Update(confident, weak)
    PROVE  \E found, n, a, b : Choices(found, n, a, b)
<1>1. PICK first \in SUBSET (Confirmed \cup LostIds), second \in SUBSET Confirmed,
           third \in SUBSET Unconfirmed, n \in 0..confident :
             UpdateLists(first \cup second \cup third, n)
  BY DEF Update
<1> DEFINE found == first \cup second \cup third
<1>2. found \subseteq TrackedIds \cup LostIds /\ n \in Nat
  BY DEF Confirmed, Unconfirmed
<1>3. UpdateLists(found, n)
  BY <1>1
<1> HIDE DEF found
<1>4. \E a, b : /\ trackedStracks' = Without(Continued(found, Fresh(n)), a)
                /\ lostStracks' = Without(LostNow(found), b)
  BY <1>3 DEF UpdateLists
<1>5. /\ removedStracks' = (Unconfirmed \ found) \cup Expired(found)
      /\ nextTrackId' = nextTrackId + n /\ frameId' = frameId + 1
  BY <1>3 DEF UpdateLists, Now
<1> QED BY <1>2, <1>4, <1>5 DEF Choices

\* What a frame leaves in each list, and where it comes from.
LEMMA WhatRemains ==
    ASSUME NEW found, NEW n, NEW a, NEW b, Choices(found, n, a, b)
    PROVE  /\ \A id \in TrackedIds' :
                \/ id \in Fresh(n) /\ trackedStracks'[id] = Activate(id)
                \/ id \in TrackedIds /\ id \in found /\ trackedStracks'[id] = Seen(trackedStracks[id])
                \/ id \in LostIds /\ id \in found /\ trackedStracks'[id] = Seen(lostStracks[id])
           /\ \A id \in LostIds' :
                /\ id \notin found /\ id \notin removedStracks
                /\ \/ id \in Confirmed /\ lostStracks'[id] = MarkLost(trackedStracks[id])
                   \/ id \in Expired(found) /\ lostStracks'[id] = MarkRemoved(lostStracks[id])
                   \/ /\ id \in LostIds /\ id \notin Expired(found)
                      /\ lostStracks'[id] = lostStracks[id]
<1>1. found \subseteq TrackedIds \cup LostIds
  BY DEF Choices
<1>2. trackedStracks' = Without(Continued(found, Fresh(n)), a)
      /\ lostStracks' = Without(LostNow(found), b)
  BY DEF Choices
<1>3. ASSUME NEW id \in TrackedIds'
      PROVE  \/ id \in Fresh(n) /\ trackedStracks'[id] = Activate(id)
             \/ id \in TrackedIds /\ id \in found /\ trackedStracks'[id] = Seen(trackedStracks[id])
             \/ id \in LostIds /\ id \in found /\ trackedStracks'[id] = Seen(lostStracks[id])
  <2>1. id \in found \cup Fresh(n) /\ trackedStracks'[id] = Continued(found, Fresh(n))[id]
    BY <1>2, <1>3 DEF TrackedIds, Without, Continued
  <2> QED BY <1>1, <2>1 DEF Continued
<1>4. ASSUME NEW id \in LostIds'
      PROVE  /\ id \notin found /\ id \notin removedStracks
             /\ \/ id \in Confirmed /\ lostStracks'[id] = MarkLost(trackedStracks[id])
                \/ id \in Expired(found) /\ lostStracks'[id] = MarkRemoved(lostStracks[id])
                \/ /\ id \in LostIds /\ id \notin Expired(found)
                   /\ lostStracks'[id] = lostStracks[id]
  <2>1. id \in DOMAIN LostNow(found) /\ lostStracks'[id] = LostNow(found)[id]
    BY <1>2, <1>4 DEF LostIds, Without
  <2>2. id \in ((LostIds \ found) \cup (Confirmed \ found)) \ removedStracks
    BY <2>1 DEF LostNow
  <2> QED BY <2>1, <2>2 DEF LostNow
<1> QED BY <1>3, <1>4

\* What the step functions do to a track.
LEMMA TrackSteps ==
    ASSUME frameId \in Nat, NEW track \in STracks
    PROVE  /\ Seen(track) = [is_activated |-> TRUE, state |-> "tracked",
                             start_frame |-> track.start_frame, frame_id |-> frameId + 1]
           /\ MarkLost(track) = [is_activated |-> track.is_activated, state |-> "lost",
                                 start_frame |-> track.start_frame, frame_id |-> track.frame_id]
           /\ MarkRemoved(track) = [is_activated |-> track.is_activated, state |-> "removed",
                                    start_frame |-> track.start_frame, frame_id |-> track.frame_id]
           /\ track.is_activated \in BOOLEAN /\ track.state \in {"tracked", "lost", "removed"}
           /\ track.start_frame \in 1..frameId /\ track.frame_id \in 1..frameId
           /\ track = [is_activated |-> track.is_activated, state |-> track.state,
                       start_frame |-> track.start_frame, frame_id |-> track.frame_id]
<1>1. /\ track.is_activated \in BOOLEAN /\ track.state \in {"tracked", "lost", "removed"}
      /\ track.start_frame \in 1..frameId /\ track.frame_id \in 1..frameId
      /\ track = [is_activated |-> track.is_activated, state |-> track.state,
                  start_frame |-> track.start_frame, frame_id |-> track.frame_id]
  BY DEF STracks
<1>2. Seen(track) = [is_activated |-> TRUE, state |-> "tracked",
                     start_frame |-> track.start_frame, frame_id |-> frameId + 1]
  <2>1. Seen(track) = [track EXCEPT !.is_activated = TRUE, !.state = "tracked",
                                    !.frame_id = frameId + 1]
    BY DEF Seen, Now
  <2> DEFINE new == [is_activated |-> TRUE, state |-> "tracked",
                     start_frame |-> track.start_frame, frame_id |-> frameId + 1]
  <2> QED BY <1>1, <2>1
<1>3. MarkLost(track) = [is_activated |-> track.is_activated, state |-> "lost",
                         start_frame |-> track.start_frame, frame_id |-> track.frame_id]
  BY <1>1 DEF MarkLost
<1>4. MarkRemoved(track) = [is_activated |-> track.is_activated, state |-> "removed",
                            start_frame |-> track.start_frame, frame_id |-> track.frame_id]
  BY <1>1 DEF MarkRemoved
<1> QED BY <1>1, <1>2, <1>3, <1>4

LEMMA ListsInit == TrackerInit => ListsInv
<1> SUFFICES ASSUME TrackerInit PROVE ListsInv
  OBVIOUS
<1>1. TrackedIds = {} /\ LostIds = {} /\ removedStracks = {}
  BY DEF TrackerInit, TrackedIds, LostIds
<1>2. trackedStracks \in [{} -> STracks] /\ lostStracks \in [{} -> STracks]
  BY DEF TrackerInit
<1> QED BY <1>1, <1>2 DEF TrackerInit, ListsInv, TypeOK, OneIdentity, SeenTwice, LostExpire,
                          ExpiredAreRemoved

\* A frame keeps the invariant.
LEMMA UpdateStep ==
    ASSUME ListsInv, NEW confident \in Nat, NEW weak \in Nat, Update(confident, weak)
    PROVE  ListsInv'
<1>1. PICK found, n, a, b : Choices(found, n, a, b)
  BY UpdateChooses
<1>2. /\ frameId \in Nat /\ frameId' = frameId + 1 /\ n \in Nat
      /\ nextTrackId \in Nat /\ nextTrackId' = nextTrackId + n
      /\ removedStracks' = (Unconfirmed \ found) \cup Expired(found)
  BY <1>1 DEF Choices, ListsInv, TypeOK
<1>3. \A id \in TrackedIds' :
         \/ id \in Fresh(n) /\ trackedStracks'[id] = Activate(id)
         \/ id \in TrackedIds /\ id \in found /\ trackedStracks'[id] = Seen(trackedStracks[id])
         \/ id \in LostIds /\ id \in found /\ trackedStracks'[id] = Seen(lostStracks[id])
  BY <1>1, WhatRemains
<1>4. \A id \in LostIds' :
         /\ id \notin found /\ id \notin removedStracks
         /\ \/ id \in Confirmed /\ lostStracks'[id] = MarkLost(trackedStracks[id])
            \/ id \in Expired(found) /\ lostStracks'[id] = MarkRemoved(lostStracks[id])
            \/ /\ id \in LostIds /\ id \notin Expired(found)
               /\ lostStracks'[id] = lostStracks[id]
  BY <1>1, WhatRemains
<1>5. /\ TrackedIds \subseteq 1..nextTrackId /\ LostIds \subseteq 1..nextTrackId
      /\ \A id \in TrackedIds : trackedStracks[id] \in STracks
      /\ \A id \in LostIds : lostStracks[id] \in STracks
      /\ Confirmed \subseteq TrackedIds /\ Expired(found) \subseteq LostIds
  BY DEF ListsInv, TypeOK, Ids, Confirmed, Expired
<1>6. Fresh(n) \subseteq 1..nextTrackId' /\ \A id \in Fresh(n) : id > nextTrackId
  BY <1>2 DEF Fresh
<1>7. TrackedIds' \subseteq Ids' /\ LostIds' \subseteq Ids' /\ removedStracks' \subseteq Ids'
  <2>1. Ids' = 1..nextTrackId' /\ 1..nextTrackId \subseteq 1..nextTrackId'
    BY <1>2 DEF Ids
  <2>2. Unconfirmed \subseteq TrackedIds
    BY DEF Unconfirmed
  <2> QED BY <1>2, <1>3, <1>4, <1>5, <1>6, <2>1, <2>2
<1>8. ASSUME NEW id \in TrackedIds'
      PROVE  /\ trackedStracks'[id] \in STracks'
             /\ trackedStracks'[id].frame_id = frameId'
             /\ trackedStracks'[id].is_activated =>
                  trackedStracks'[id].start_frame \in {1} \cup 1..(frameId' - 1)
  <2>0. STracks' = [is_activated : BOOLEAN, state : {"tracked", "lost", "removed"},
                    start_frame : 1..(frameId + 1), frame_id : 1..(frameId + 1)]
    BY <1>2 DEF STracks
  <2>1. CASE id \in Fresh(n) /\ trackedStracks'[id] = Activate(id)
    <3>1. Activate(id) = [is_activated |-> (frameId + 1 = 1), state |-> "tracked",
                          start_frame |-> frameId + 1, frame_id |-> frameId + 1]
      BY DEF Activate, STrack, Now
    <3>2. (frameId + 1 = 1) \in BOOLEAN /\ frameId + 1 \in 1..(frameId + 1)
      BY <1>2
    <3>3. Activate(id) \in STracks'
      BY <3>1, <3>2, <2>0
    <3>4. /\ Activate(id).is_activated = (frameId + 1 = 1)
          /\ Activate(id).start_frame = frameId + 1 /\ Activate(id).frame_id = frameId + 1
      BY <3>1
    <3>5. frameId + 1 = 1 => frameId + 1 \in {1} \cup 1..(frameId' - 1)
      OBVIOUS
    <3> QED BY <1>2, <2>1, <3>3, <3>4, <3>5
  <2>2. ASSUME NEW track \in STracks, trackedStracks'[id] = Seen(track)
        PROVE  /\ trackedStracks'[id] \in STracks'
               /\ trackedStracks'[id].frame_id = frameId'
               /\ trackedStracks'[id].start_frame \in 1..(frameId' - 1)
    <3>1. /\ Seen(track) = [is_activated |-> TRUE, state |-> "tracked",
                            start_frame |-> track.start_frame, frame_id |-> frameId + 1]
          /\ track.start_frame \in 1..frameId
      BY <1>2, TrackSteps
    <3>2. track.start_frame \in 1..(frameId + 1) /\ frameId + 1 \in 1..(frameId + 1)
          /\ 1..(frameId' - 1) = 1..frameId
      BY <1>2, <3>1
    <3>3. Seen(track) \in STracks'
      BY <3>1, <3>2, <2>0
    <3> QED BY <1>2, <2>2, <3>1, <3>2, <3>3
  <2> QED BY <1>3, <1>5, <2>1, <2>2, <1>8
<1>9. ASSUME NEW id \in LostIds'
      PROVE  /\ lostStracks'[id] \in STracks'
             /\ frameId' - lostStracks'[id].frame_id \in 1..(MaxTimeLost + 1)
             /\ lostStracks'[id].state = "removed" <=>
                  frameId' - lostStracks'[id].frame_id > MaxTimeLost
             /\ frameId' - lostStracks'[id].frame_id > MaxTimeLost => id \in Expired(found)
  <2>0. STracks' = [is_activated : BOOLEAN, state : {"tracked", "lost", "removed"},
                    start_frame : 1..(frameId + 1), frame_id : 1..(frameId + 1)]
        /\ 1..frameId \subseteq 1..(frameId + 1)
    BY <1>2 DEF STracks
  <2>1. \A track \in STracks : track \in STracks' /\ track.frame_id \in 1..frameId
    BY <2>0 DEF STracks
  <2>2. CASE id \in Confirmed /\ lostStracks'[id] = MarkLost(trackedStracks[id])
    <3> DEFINE track == trackedStracks[id]
    <3>1. track \in STracks /\ track.frame_id = frameId
      BY <1>5, <2>2 DEF ListsInv, SeenTwice
    <3>2. /\ MarkLost(track) = [is_activated |-> track.is_activated, state |-> "lost",
                                start_frame |-> track.start_frame, frame_id |-> track.frame_id]
          /\ track.is_activated \in BOOLEAN
          /\ track.start_frame \in 1..frameId /\ track.frame_id \in 1..frameId
      BY <1>2, <3>1, TrackSteps
    <3>3. MarkLost(track) \in STracks'
      BY <2>0, <3>2
    <3>4. MarkLost(track).state = "lost" /\ MarkLost(track).frame_id = frameId
      BY <3>1, <3>2
    <3>5. frameId' - frameId = 1 /\ 1 \in 1..(MaxTimeLost + 1) /\ ~(1 > MaxTimeLost)
      BY <1>2, TimeLostAssumption
    <3> HIDE DEF track
    <3>6. lostStracks'[id] = MarkLost(track)
      BY <2>2 DEF track
    <3> QED BY <3>3, <3>4, <3>5, <3>6
  <2>3. CASE id \in Expired(found) /\ lostStracks'[id] = MarkRemoved(lostStracks[id])
    <3> DEFINE track == lostStracks[id]
    <3>1. /\ id \in LostIds /\ track \in STracks
          /\ frameId + 1 - track.frame_id > MaxTimeLost
      <4>1. id \in LostIds /\ Now - lostStracks[id].frame_id > MaxTimeLost
        BY <2>3 DEF Expired
      <4>2. lostStracks[id] \in STracks
        BY <1>5, <4>1
      <4>3. lostStracks[id].frame_id \in Nat
        BY <1>2, <4>2 DEF STracks
      <4>4. Now = frameId + 1
        BY DEF Now
      <4> QED BY <1>2, <4>1, <4>2, <4>3, <4>4, TimeLostAssumption
    <3>2. ~(frameId - track.frame_id > MaxTimeLost)
      BY <1>4, <1>9, <3>1 DEF ListsInv, ExpiredAreRemoved
    <3>3. /\ MarkRemoved(track) = [is_activated |-> track.is_activated, state |-> "removed",
                                   start_frame |-> track.start_frame, frame_id |-> track.frame_id]
          /\ track.is_activated \in BOOLEAN
          /\ track.start_frame \in 1..frameId /\ track.frame_id \in 1..frameId
      BY <1>2, <3>1, TrackSteps
    <3>4. MarkRemoved(track) \in STracks'
      BY <2>0, <3>3
    <3>5. MarkRemoved(track).state = "removed" /\ MarkRemoved(track).frame_id = track.frame_id
      BY <3>3
    <3> HIDE DEF track
    <3>6. frameId' - track.frame_id \in 1..(MaxTimeLost + 1)
          /\ frameId' - track.frame_id > MaxTimeLost
      BY <1>2, <3>1, <3>2, <3>3, TimeLostAssumption
    <3>7. lostStracks'[id] = MarkRemoved(track)
      BY <2>3 DEF track
    <3> QED BY <2>3, <3>4, <3>5, <3>6, <3>7
  <2>4. CASE id \in LostIds /\ id \notin Expired(found) /\ lostStracks'[id] = lostStracks[id]
    <3> DEFINE track == lostStracks[id]
    <3>1. track \in STracks /\ id \in LostIds \ found
      BY <1>4, <1>5, <1>9, <2>4
    <3>2. ~(frameId + 1 - track.frame_id > MaxTimeLost)
      <4>1. ~(Now - lostStracks[id].frame_id > MaxTimeLost)
        BY <2>4, <3>1 DEF Expired
      <4>2. lostStracks[id].frame_id \in Nat
        BY <1>2, <3>1 DEF STracks
      <4>3. Now = frameId + 1
        BY DEF Now
      <4> QED BY <1>2, <4>1, <4>2, <4>3, TimeLostAssumption
    <3>3. track.state = "removed" <=> frameId - track.frame_id > MaxTimeLost
      BY <2>4 DEF ListsInv, LostExpire
    <3>4. track \in STracks' /\ track.frame_id \in 1..frameId
      BY <2>1, <3>1
    <3> HIDE DEF track
    <3>5. /\ frameId' - track.frame_id \in 1..(MaxTimeLost + 1)
          /\ ~(frameId' - track.frame_id > MaxTimeLost)
          /\ ~(frameId - track.frame_id > MaxTimeLost)
      BY <1>2, <3>2, <3>4, TimeLostAssumption
    <3>6. lostStracks'[id] = track
      BY <2>4 DEF track
    <3> QED BY <3>3, <3>4, <3>5, <3>6
  <2> QED BY <1>4, <1>9, <2>2, <2>3, <2>4
<1>10. trackedStracks' \in [TrackedIds' -> STracks'] /\ lostStracks' \in [LostIds' -> STracks']
  <2>1. /\ trackedStracks' = [id \in TrackedIds' |-> trackedStracks'[id]]
        /\ lostStracks' = [id \in LostIds' |-> lostStracks'[id]]
    BY <1>1 DEF Choices, TrackedIds, LostIds, Without
  <2> QED BY <1>8, <1>9, <2>1
<1>11. TypeOK'
  BY <1>2, <1>7, <1>10 DEF TypeOK
<1>12. OneIdentity'
  <2> SUFFICES ASSUME NEW id \in TrackedIds', id \in LostIds' PROVE FALSE
    BY DEF OneIdentity
  <2>1. id \notin found /\ (id \in Confirmed \/ id \in LostIds)
    BY <1>4, <1>5
  <2>2. id \in Fresh(n) /\ id \in 1..nextTrackId
    BY <1>3, <1>5, <2>1
  <2> QED BY <1>2, <1>6, <2>2
<1>13. SeenTwice'
  BY <1>8 DEF SeenTwice
<1>14. LostExpire'
  BY <1>9 DEF LostExpire
<1>15. ExpiredAreRemoved'
  BY <1>2, <1>9 DEF ExpiredAreRemoved
<1> QED BY <1>11, <1>12, <1>13, <1>14, <1>15 DEF ListsInv

LEMMA ListsStep == ListsInv /\ [TrackerNext]_trackerVars => ListsInv'
<1> SUFFICES ASSUME ListsInv, [TrackerNext]_trackerVars PROVE ListsInv'
  OBVIOUS
<1>1. CASE TrackerNext
  BY <1>1, UpdateStep DEF TrackerNext
<1>2. CASE UNCHANGED trackerVars
  BY <1>2 DEF trackerVars, ListsInv, TypeOK, OneIdentity, SeenTwice, LostExpire, ExpiredAreRemoved,
              TrackedIds, LostIds, Ids, STracks
<1> QED BY <1>1, <1>2

LEMMA ListsInvariant == TrackerSpec => []ListsInv
BY ListsInit, ListsStep, PTL DEF TrackerSpec

-----------------------------------------------------------------------------
\* No id names a tracked and a lost track at once, whatever is found again.
THEOREM TracksHaveOneIdentity == TrackerSpec => []OneIdentity
<1>1. ListsInv => OneIdentity
  BY DEF ListsInv
<1> QED BY <1>1, ListsInvariant, PTL

\* Every reported track was seen in two frames, or in the first.
THEOREM TracksSeenTwice == TrackerSpec => []SeenTwice
<1>1. ListsInv => SeenTwice
  BY DEF ListsInv
<1> QED BY <1>1, ListsInvariant, PTL

\* A lost track is kept for max_time_lost frames and one more, not longer.
THEOREM TracksExpire == TrackerSpec => []LostExpire
<1>1. ListsInv => LostExpire
  BY DEF ListsInv
<1> QED BY <1>1, ListsInvariant, PTL

\* An id that has left both lists never comes back.
THEOREM TracksDroppedForGood == TrackerSpec => DroppedForGood
<1> DEFINE New == \A id \in (TrackedIds' \cup LostIds') \ (TrackedIds \cup LostIds) : id > nextTrackId
<1>1. ListsInv /\ [TrackerNext]_trackerVars => [New]_trackerVars
  <2> SUFFICES ASSUME ListsInv, TrackerNext PROVE New
    OBVIOUS
  <2>1. PICK found, n, a, b : Choices(found, n, a, b)
    BY UpdateChooses DEF TrackerNext
  <2>2. /\ \A id \in TrackedIds' : id \in Fresh(n) \/ id \in TrackedIds \/ id \in LostIds
        /\ \A id \in LostIds' : id \in Confirmed \/ id \in LostIds
    BY <2>1, WhatRemains DEF ListsInv, Expired
  <2>3. \A id \in Fresh(n) : id > nextTrackId
    BY <2>1 DEF Fresh, Choices, ListsInv, TypeOK
  <2> QED BY <2>2, <2>3 DEF Confirmed
<1> QED BY <1>1, ListsInvariant, PTL DEF TrackerSpec, DroppedForGood

-----------------------------------------------------------------------------
(* Lists without some of their elements, and remainders. *)

\* Every place that stays is the i-th of them for one i.
LEMMA PlaceExists ==
    ASSUME NEW n \in Nat, NEW kept \in SUBSET (1..n)
    PROVE  /\ Cardinality(kept) \in Nat
           /\ \A i \in 1..Cardinality(kept) :
                /\ Place(kept, i) \in kept
                /\ Cardinality({j \in kept : j <= Place(kept, i)}) = i
<1> DEFINE c == Cardinality(kept)
           Upto(k) == {j \in kept : j <= k}
<1>0. IsFiniteSet(1..n)
  BY FS_Interval
<1>1. IsFiniteSet(kept) /\ c \in Nat
  <2>1. IsFiniteSet(kept)
    BY <1>0, FS_Subset
  <2> QED BY <2>1, FS_CardinalityType
<1>2. \A k \in kept : IsFiniteSet(Upto(k)) /\ Cardinality(Upto(k)) \in 1..c
  <2> SUFFICES ASSUME NEW k \in kept PROVE IsFiniteSet(Upto(k)) /\ Cardinality(Upto(k)) \in 1..c
    OBVIOUS
  <2>1. Upto(k) \in SUBSET kept /\ k \in Upto(k)
    OBVIOUS
  <2>2. IsFiniteSet(Upto(k)) /\ Cardinality(Upto(k)) <= c
    BY <1>1, <2>1, FS_Subset
  <2>3. Cardinality(Upto(k)) \in Nat /\ Cardinality(Upto(k)) # 0
    BY <2>1, <2>2, FS_EmptySet, FS_CardinalityType
  <2> QED BY <1>1, <2>2, <2>3
<1>3. ASSUME NEW k \in kept, NEW l \in kept, k < l
      PROVE  Cardinality(Upto(k)) # Cardinality(Upto(l))
  <2>0. \A j \in kept : j \in Int
    OBVIOUS
  <2>1. Upto(k) \in SUBSET (Upto(l) \ {l}) /\ l \in Upto(l)
    <3>1. \A j \in Upto(k) : j \in kept /\ j <= l /\ j # l
      BY <1>3, <2>0
    <3>2. l <= l
      BY <2>0
    <3> QED BY <3>1, <3>2
  <2>2. /\ IsFiniteSet(Upto(l) \ {l})
        /\ Cardinality(Upto(l) \ {l}) = Cardinality(Upto(l)) - 1
    BY <1>2, <2>1, FS_RemoveElement
  <2>3. Cardinality(Upto(k)) <= Cardinality(Upto(l)) - 1
    BY <2>1, <2>2, FS_Subset
  <2>4. Cardinality(Upto(k)) \in Nat /\ Cardinality(Upto(l)) \in Nat
    BY <1>1, <1>2
  <2> QED BY <2>3, <2>4
<1>4. ASSUME NEW i \in 1..c PROVE \E k \in kept : Cardinality(Upto(k)) = i
  <2> DEFINE Rank == [k \in kept |-> Cardinality(Upto(k))]
             rest == (1..c) \ {i}
  <2> SUFFICES ASSUME \A k \in kept : Cardinality(Upto(k)) # i PROVE FALSE
    OBVIOUS
  <2>1. Rank \in [kept -> rest]
    BY <1>2
  <2>2. IsFiniteSet(1..c) /\ Cardinality(1..c) = c
    BY <1>1, FS_Interval
  <2>3. IsFiniteSet(rest) /\ Cardinality(rest) = c - 1
    <3>1. IsFiniteSet((1..c) \ {i}) /\ Cardinality((1..c) \ {i}) = Cardinality(1..c) - 1
      BY <2>2, FS_RemoveElement, Zenon
    <3> QED BY <2>2, <3>1
  <2> HIDE DEF Rank, rest
  <2>4. PICK k \in kept, l \in kept : k # l /\ Rank[k] = Rank[l]
    <3>1. c - 1 < c
      BY <1>1
    <3> QED BY <1>1, <2>1, <2>3, <3>1, FS_PigeonHole
  <2>5. k < l \/ l < k
    BY <2>4
  <2> QED BY <1>3, <2>4, <2>5 DEF Rank
<1> QED BY <1>1, <1>4 DEF Place

\* A set of bounded numbers has a greatest one.
LEMMA MaxExists ==
    ASSUME NEW n \in Nat, NEW S \in SUBSET (0..n), S # {}
    PROVE  \E x \in S : \A y \in S : y <= x
<1> DEFINE K == S \ {0}
<1>0. \A x \in S : x \in Int
  OBVIOUS
<1>1. CASE K = {}
  <2>1. S = {0}
    BY <1>1
  <2> QED BY <2>1
<1>2. CASE K # {}
  <2>1. K \in SUBSET (1..n)
    OBVIOUS
  <2>0. IsFiniteSet(1..n)
    BY FS_Interval
  <2>2. IsFiniteSet(K) /\ Cardinality(K) \in Nat /\ Cardinality(K) # 0
    <3>1. IsFiniteSet(K)
      BY <2>0, <2>1, FS_Subset
    <3> QED BY <1>2, <3>1, FS_CardinalityType, FS_EmptySet
  <2> DEFINE k == Place(K, Cardinality(K))
  <2>3. k \in K /\ Cardinality({j \in K : j <= k}) = Cardinality(K)
    <3>1. Cardinality(K) \in 1..Cardinality(K)
      BY <2>2
    <3> HIDE DEF K
    <3> QED BY <2>1, <3>1, PlaceExists
  <2> HIDE DEF k
  <2>4. {j \in K : j <= k} = K
    BY <2>2, <2>3, FS_Subset
  <2>5. \A y \in S : y <= k
    BY <2>1, <2>3, <2>4
  <2> QED BY <2>3, <2>5
<1> QED BY <1>1, <1>2

\* A remainder grows by one from number to number, until it is 0 again.
LEMMA ModStep ==
    ASSUME NEW a \in Int, NEW n \in Nat \ {0}
    PROVE  /\ a % n \in 0..(n - 1)
           /\ (a + 1) % n # 0 => (a + 1) % n = (a % n) + 1
<1>1. a % n \in 0..(n - 1) /\ (a + 1) % n \in 0..(n-1)
  OBVIOUS
<1>2. a \div n \in Int /\ (a + 1) \div n \in Int
  OBVIOUS
<1>3. a = n * (a \div n) + (a % n)
  BY SMTT(60)
<1>8. a + 1 = n * ((a + 1) \div n) + ((a + 1) % n)
  BY SMTT(60)
<1> DEFINE q == a \div n
           r == a % n
           s == (a + 1) \div n
           t == (a + 1) % n
<1>4. r \in 0..(n-1) /\ t \in 0..(n-1) /\ q \in Int /\ s \in Int
      /\ a = n*q + r /\ a + 1 = n*s + t
  BY <1>1, <1>2, <1>3, <1>8
<1> HIDE DEF q, r, s, t
<1>5. CASE s = q
  BY <1>4, <1>5 DEF r, t
<1>6. CASE s > q
  <2>1. n*s >= n*(q + 1)
    BY <1>4, <1>6
  <2>2. n*(q + 1) = n*q + n
    BY <1>4
  <2> QED BY <1>4, <2>1, <2>2 DEF t
<1>7. CASE s < q
  <2>1. n*q >= n*(s + 1)
    BY <1>4, <1>7
  <2>2. n*(s + 1) = n*s + n
    BY <1>4
  <2> QED BY <1>4, <2>1, <2>2 DEF t
<1> QED BY <1>4, <1>5, <1>6, <1>7

\* A face of the list.
States == {"detect", "ready", "tracking", "untracking"}
Faces == [id : Int, state : States, low : BOOLEAN]

\* One list holds elements of another, each of them once.
Part(part, list) ==
    /\ Len(part) \in Nat /\ part = [i \in 1..Len(part) |-> part[i]]
    /\ \E place \in [1..Len(part) -> DOMAIN list] :
         /\ \A i, j \in 1..Len(part) : i # j => place[i] # place[j]
         /\ \A i \in 1..Len(part) : part[i] = list[place[i]]

\* A sublist is a part of the list, and holds what stays at its places.
LEMMA SublistIsPart ==
    ASSUME NEW n \in Nat, NEW list, DOMAIN list = 1..n, NEW kept \in SUBSET (1..n)
    PROVE  /\ Part(Sublist(list, kept), list)
           /\ Len(Sublist(list, kept)) = Cardinality(kept)
           /\ \A i \in 1..Cardinality(kept) :
                Place(kept, i) \in kept /\ Sublist(list, kept)[i] = list[Place(kept, i)]
<1> DEFINE c == Cardinality(kept)
           part == Sublist(list, kept)
           place == [i \in 1..c |-> Place(kept, i)]
<1>1. /\ c \in Nat
      /\ \A i \in 1..c : /\ Place(kept, i) \in kept
                         /\ Cardinality({j \in kept : j <= Place(kept, i)}) = i
  BY PlaceExists
<1> HIDE DEF c
<1>2. part = [i \in 1..c |-> list[Place(kept, i)]]
  BY DEF Sublist, c
<1>3. DOMAIN part = 1..c /\ Len(part) = c /\ part = [i \in 1..c |-> part[i]]
  BY <1>1, <1>2
<1>4. place \in [1..c -> DOMAIN list]
  BY <1>1
<1>5. \A i, j \in 1..c : i # j => place[i] # place[j]
  BY <1>1
<1>6. \A i \in 1..c : part[i] = list[place[i]] /\ part[i] = list[Place(kept, i)]
  BY <1>2
<1> HIDE DEF part, place
<1>7. Part(part, list)
  BY <1>1, <1>3, <1>4, <1>5, <1>6 DEF Part
<1> QED BY <1>1, <1>3, <1>6, <1>7 DEF part, c

\* A part of a list has its elements.
LEMMA PartOfFaces ==
    ASSUME NEW S, NEW list \in Seq(S), NEW part, Part(part, list)
    PROVE  part \in Seq(S)
<1>1. \A i \in 1..Len(part) : part[i] \in S
  BY DEF Part
<1>2. part = [i \in 1..Len(part) |-> part[i]]
  BY DEF Part
<1> QED BY <1>1, <1>2 DEF Part

\* A face that was tracked keeps its id and is not as it was detected.
LEMMA TrackFaceFacts ==
    ASSUME NEW face \in Faces, NEW yield \in Yields
    PROVE  /\ TrackFace(face, yield) \in Faces
           /\ TrackFace(face, yield).id = face.id
           /\ TrackFace(face, yield).state \in {"untracking", "ready", "tracking"}
<1> DEFINE weak == (yield = "low")
<1>1. /\ face = [id |-> face.id, state |-> face.state, low |-> face.low]
      /\ face.id \in Int /\ face.state \in States /\ face.low \in BOOLEAN
  BY DEF Faces
<1>2. weak \in BOOLEAN
  OBVIOUS
<1>3. \/ TrackFace(face, yield) = Lost(face)
      \/ TrackFace(face, yield) = [face EXCEPT !.state = "ready"]
      \/ TrackFace(face, yield) = [face EXCEPT !.state = "tracking", !.low = weak]
  BY DEF TrackFace
<1> HIDE DEF weak
<1>4. Lost(face) = [id |-> face.id, state |-> "untracking", low |-> face.low]
  BY <1>1 DEF Lost
<1>5. [face EXCEPT !.state = "ready"] = [id |-> face.id, state |-> "ready", low |-> face.low]
  BY <1>1
<1>6. /\ [face EXCEPT !.state = "tracking", !.low = weak] \in Faces
      /\ [face EXCEPT !.state = "tracking", !.low = weak].id = face.id
      /\ [face EXCEPT !.state = "tracking", !.low = weak].state = "tracking"
  <2>1. [face EXCEPT !.state = "tracking", !.low = weak] \in Faces
    BY <1>2 DEF Faces, States
  <2> QED BY <1>1, <2>1
<1>7. Lost(face) \in Faces /\ Lost(face).id = face.id /\ Lost(face).state = "untracking"
  BY <1>1, <1>4 DEF Faces, States
<1>8. /\ [face EXCEPT !.state = "ready"] \in Faces /\ [face EXCEPT !.state = "ready"].id = face.id
      /\ [face EXCEPT !.state = "ready"].state = "ready"
  BY <1>1, <1>5 DEF Faces, States
<1> QED BY <1>3, <1>6, <1>7, <1>8

-----------------------------------------------------------------------------
(* The list of tracked faces. *)

\* What the list of tracked faces always is: none is lost, and their ids are
\* different and have been given out.
Fits(list, last) ==
    /\ list \in Seq(Faces)
    /\ \A i \in DOMAIN list : list[i].state # "untracking"
    /\ mode = Light => \A i \in DOMAIN list : list[i].id \in 1..last
    /\ mode # Always => \A i, j \in DOMAIN list : i # j => list[i].id # list[j].id

\* Suppression takes faces out, no more.
LEMMA SuppressionFits ==
    ASSUME NEW list, NEW last, Fits(list, last), NEW part \in Suppressions(list)
    PROVE  Fits(part, last)
<1>1. PICK kept \in SUBSET DOMAIN list : part = Sublist(list, kept)
  BY DEF Suppressions
<1>2. list \in Seq(Faces) /\ Len(list) \in Nat /\ DOMAIN list = 1..Len(list)
  BY DEF Fits
<1>3. Part(part, list)
  BY <1>1, <1>2, SublistIsPart
<1>4. part \in Seq(Faces)
  BY <1>2, <1>3, PartOfFaces
<1>5. PICK place \in [1..Len(part) -> DOMAIN list] :
         /\ \A i, j \in 1..Len(part) : i # j => place[i] # place[j]
         /\ \A i \in 1..Len(part) : part[i] = list[place[i]]
  BY <1>3 DEF Part
<1>6. DOMAIN part = 1..Len(part)
  BY <1>4
<1>7. \A i \in DOMAIN part : part[i].state # "untracking"
  BY <1>5, <1>6 DEF Fits
<1>8. mode = Light => \A i \in DOMAIN part : part[i].id \in 1..last
  BY <1>5, <1>6 DEF Fits
<1>9. mode # Always => \A i, j \in DOMAIN part : i # j => part[i].id # part[j].id
  BY <1>5, <1>6 DEF Fits
<1> QED BY <1>4, <1>7, <1>8, <1>9 DEF Fits

\* Tracking every face of a list leaves the same faces, without the lost ones;
\* all of them were tracked if no model failed.
LEMMA TrackAllFits ==
    ASSUME NEW list, NEW last, Fits(list, last), NEW yields \in YieldsOf(list)
    PROVE  /\ Fits(TrackAll(list, yields), last)
           /\ Status(list, yields) = "ok" =>
                \A i \in DOMAIN TrackAll(list, yields) : TrackAll(list, yields)[i].state # "detect"
           /\ IdsOf(TrackAll(list, yields)) \subseteq IdsOf(list)
<1> DEFINE after == [i \in DOMAIN list |->
                       IF i \in Done(list, yields) THEN TrackFace(list[i], yields[i]) ELSE list[i]]
           kept == {i \in DOMAIN list : after[i].state # "untracking"}
           part == TrackAll(list, yields)
           n == Len(list)
<1>1. list \in Seq(Faces) /\ n \in Nat /\ DOMAIN list = 1..n
  BY DEF Fits
<1>2. \A i \in 1..n : list[i] \in Faces /\ yields[i] \in Yields
  BY <1>1 DEF YieldsOf
<1>3. \A i \in 1..n :
         /\ after[i] \in Faces /\ after[i].id = list[i].id
         /\ i \in Done(list, yields) => after[i].state \in {"untracking", "ready", "tracking"}
  BY <1>1, <1>2, TrackFaceFacts
<1>4. DOMAIN after = 1..n /\ kept \in SUBSET (1..n)
  BY <1>1
<1>5. after = [i \in 1..n |-> after[i]]
  BY <1>1
<1>6. part = Sublist(after, kept)
  BY DEF TrackAll
<1>7. \A k \in kept : after[k].state # "untracking"
  OBVIOUS
<1>8. Status(list, yields) = "ok" => Done(list, yields) = 1..n
  <2>1. Status(list, yields) = "ok" => {i \in DOMAIN list : Fails(list[i], yields[i])} = {}
    BY DEF Status
  <2> QED BY <1>1, <2>1 DEF Done
<1> HIDE DEF after, kept, part, n
<1>9. /\ Part(part, after)
      /\ \A i \in 1..Cardinality(kept) :
           Place(kept, i) \in kept /\ part[i] = after[Place(kept, i)]
      /\ Len(part) = Cardinality(kept)
  BY <1>1, <1>4, <1>6, SublistIsPart
<1>10. after \in Seq(Faces)
  BY <1>1, <1>3, <1>5
<1>11. part \in Seq(Faces)
  BY <1>9, <1>10, PartOfFaces
<1>12. PICK place \in [1..Len(part) -> DOMAIN after] :
         /\ \A i, j \in 1..Len(part) : i # j => place[i] # place[j]
         /\ \A i \in 1..Len(part) : part[i] = after[place[i]]
  BY <1>9 DEF Part
<1>13. DOMAIN part = 1..Len(part)
  BY <1>11
<1>14. \A i \in DOMAIN part : part[i].state # "untracking"
  BY <1>7, <1>9, <1>13
<1>15. \A i \in DOMAIN part : place[i] \in 1..n /\ part[i].id = list[place[i]].id
  BY <1>3, <1>4, <1>12, <1>13
<1>16. mode = Light => \A i \in DOMAIN part : part[i].id \in 1..last
  BY <1>1, <1>15 DEF Fits
<1>17. mode # Always => \A i, j \in DOMAIN part : i # j => part[i].id # part[j].id
  BY <1>1, <1>12, <1>13, <1>15 DEF Fits
<1>18. Fits(part, last)
  BY <1>11, <1>14, <1>16, <1>17 DEF Fits
<1>19. Status(list, yields) = "ok" => \A i \in DOMAIN part : part[i].state # "detect"
  <2> SUFFICES ASSUME Status(list, yields) = "ok", NEW i \in DOMAIN part PROVE part[i].state # "detect"
    OBVIOUS
  <2>1. place[i] \in 1..n /\ part[i] = after[place[i]]
    BY <1>12, <1>13, <1>15
  <2>2. after[place[i]].state \in {"untracking", "ready", "tracking"}
    BY <1>3, <1>8, <2>1
  <2> QED BY <2>1, <2>2
<1>20. IdsOf(part) \subseteq IdsOf(list)
  BY <1>1, <1>15 DEF IdsOf
<1> QED BY <1>18, <1>19, <1>20 DEF part

\* The faces of a detection are new: their ids come after those given out.
LEMMA DetectedFacts ==
    ASSUME mode \in Modes, mode # ByDetect, lastId \in Int, mode = Light => lastId \in Nat,
           NEW new \in DetectFace
    PROVE  /\ Fits(new.faces, new.lastId)
           /\ new.lastId \in Int
           /\ mode = Light =>
                /\ new.lastId \in Nat /\ new.lastId >= lastId
                /\ \A i \in DOMAIN new.faces : new.faces[i].id > lastId
<1>1. PICK boxes \in Boxes : new = [faces |-> Candidates(boxes), lastId |-> LastId(boxes)]
  BY DEF DetectFace
<1>2. new.faces = Candidates(boxes) /\ new.lastId = LastId(boxes)
  BY <1>1
<1> DEFINE count == Len(Large(boxes))
           m == AtMost(count, MaxFaces)
           list == Candidates(boxes)
<1>3. count \in Nat
  <2>1. PICK n \in 0..MaxBoxes : boxes \in [1..n -> {"small", "likely", "unlikely"}]
    BY DEF Boxes
  <2>2. n \in Nat /\ DOMAIN boxes = 1..n
    BY <2>1, TrackAssumption
  <2> DEFINE kept == {i \in DOMAIN boxes : boxes[i] # "small"}
  <2>3. kept \in SUBSET (1..n)
    BY <2>2
  <2> HIDE DEF kept
  <2>4. Part(Sublist(boxes, kept), boxes)
    BY <2>2, <2>3, SublistIsPart
  <2> QED BY <2>4 DEF Part, Large, kept
<1>4. m \in Nat /\ m <= count
  BY <1>3, TrackAssumption DEF AtMost
<1>5. \A i \in 1..m : (Large(boxes)[i] = "unlikely") \in BOOLEAN
  OBVIOUS
<1> DEFINE id(i) == IF mode = Always THEN NoId ELSE lastId + i
           low(i) == Large(boxes)[i] = "unlikely"
<1>6. list = [i \in 1..m |-> Face(id(i), low(i))]
  BY DEF Candidates
<1>7. \A i \in 1..m : id(i) \in Int /\ low(i) \in BOOLEAN
  BY <1>4 DEF NoId
<1> HIDE DEF count, m, list, id, low
<1>8. \A i \in 1..m : /\ Face(id(i), low(i)) \in Faces /\ Face(id(i), low(i)).id = id(i)
                      /\ Face(id(i), low(i)).state = "detect"
  <2> SUFFICES ASSUME NEW i \in 1..m
               PROVE  /\ Face(id(i), low(i)) \in Faces /\ Face(id(i), low(i)).id = id(i)
                      /\ Face(id(i), low(i)).state = "detect"
    OBVIOUS
  <2>1. id(i) \in Int /\ low(i) \in BOOLEAN
    BY <1>7
  <2>2. Face(id(i), low(i)) = [id |-> id(i), state |-> "detect", low |-> low(i)]
    BY DEF Face
  <2> QED BY <2>1, <2>2 DEF Faces, States
<1>9. list \in Seq(Faces) /\ DOMAIN list = 1..m
      /\ \A i \in 1..m : list[i].id = id(i) /\ list[i].state = "detect"
  BY <1>4, <1>6, <1>8
<1>10. mode = Light => /\ LastId(boxes) = lastId + count
                       /\ \A i \in 1..m : id(i) = lastId + i
  BY DEF LastId, id, count, Light, Always
<1>11. LastId(boxes) \in Int
  BY <1>3 DEF LastId, NoId, count
<1>12. mode = Light => \A i \in DOMAIN list : list[i].id \in 1..LastId(boxes) /\ list[i].id > lastId
  BY <1>3, <1>4, <1>9, <1>10
<1>13. mode # Always => mode = Light
  BY TrackAssumption
<1>14. mode # Always => \A i, j \in DOMAIN list : i # j => list[i].id # list[j].id
  BY <1>4, <1>9, <1>10, <1>13
<1>15. Fits(list, LastId(boxes))
  BY <1>9, <1>12, <1>14 DEF Fits
<1>16. mode = Light => LastId(boxes) \in Nat /\ LastId(boxes) >= lastId
  BY <1>3, <1>10
<1> QED BY <1>2, <1>11, <1>12, <1>15, <1>16 DEF list

\* New faces join old ones without a clash.
LEMMA JoinedFits ==
    ASSUME mode \in Modes, mode # ByDetect, NEW old, NEW new, NEW last,
           lastId \in Int, last \in Int,
           Fits(old, lastId), Fits(new, last),
           mode = Light => /\ last >= lastId
                           /\ \A i \in DOMAIN new : new[i].id > lastId
    PROVE  Fits(old \o new, last)
<1> DEFINE list == old \o new
           a == Len(old)
           b == Len(new)
<1>1. old \in Seq(Faces) /\ new \in Seq(Faces)
  BY DEF Fits
<1>2. list \in Seq(Faces)
  BY <1>1
<1>3. /\ a \in Nat /\ b \in Nat /\ DOMAIN old = 1..a /\ DOMAIN new = 1..b
      /\ DOMAIN list = 1..(a + b)
      /\ \A i \in 1..a : list[i] = old[i]
      /\ \A i \in (a + 1)..(a + b) : list[i] = new[i - a]
  BY <1>1
<1> HIDE DEF list, a, b
<1>4. \A i \in DOMAIN list :
         \/ i \in 1..a /\ list[i] = old[i]
         \/ i \in (a + 1)..(a + b) /\ i - a \in 1..b /\ list[i] = new[i - a]
  BY <1>3
<1>5. \A i \in DOMAIN list : list[i].state # "untracking"
  BY <1>3, <1>4 DEF Fits
<1>6. mode # Always => mode = Light
  BY TrackAssumption
<1>7. mode = Light => \A i \in DOMAIN list : list[i].id \in 1..last
  <2> SUFFICES ASSUME mode = Light, NEW i \in DOMAIN list PROVE list[i].id \in 1..last
    OBVIOUS
  <2>1. CASE i \in 1..a /\ list[i] = old[i]
    <3>1. old[i].id \in 1..lastId
      BY <1>3, <2>1 DEF Fits
    <3> QED BY <2>1, <3>1
  <2>2. CASE i \in (a + 1)..(a + b) /\ i - a \in 1..b /\ list[i] = new[i - a]
    BY <1>3, <2>2 DEF Fits
  <2> QED BY <1>4, <2>1, <2>2
<1>8. mode # Always => \A i, j \in DOMAIN list : i # j => list[i].id # list[j].id
  <2> SUFFICES ASSUME mode = Light, NEW i \in DOMAIN list, NEW j \in DOMAIN list, i < j
               PROVE  list[i].id # list[j].id
    BY <1>3, <1>6
  <2>0. mode # Always
    BY DEF Light, Always
  <2>1. CASE j \in 1..a
    <3>1. i \in 1..a /\ list[i] = old[i] /\ list[j] = old[j]
      BY <1>3, <2>1
    <3> QED BY <1>3, <2>0, <2>1, <3>1 DEF Fits
  <2>2. CASE i \in 1..a /\ j \notin 1..a
    <3>1. list[i] = old[i] /\ j - a \in 1..b /\ list[j] = new[j - a]
      BY <1>3, <1>4, <2>2
    <3>2. old[i].id \in 1..lastId
      BY <1>3, <2>2 DEF Fits
    <3>3. new[j - a].id > lastId /\ new[j - a].id \in Int
      <4>1. new[j - a] \in Faces
        BY <1>1, <1>3, <3>1
      <4> QED BY <1>3, <3>1, <4>1 DEF Faces
    <3> QED BY <3>1, <3>2, <3>3
  <2>3. CASE i \notin 1..a
    <3>1. j \notin 1..a
      BY <1>3, <2>3
    <3>2. /\ i - a \in 1..b /\ list[i] = new[i - a]
          /\ j - a \in 1..b /\ list[j] = new[j - a] /\ i - a # j - a
      BY <1>3, <1>4, <2>3, <3>1
    <3> QED BY <1>3, <2>0, <3>2 DEF Fits
  <2> QED BY <2>1, <2>2, <2>3
<1> QED BY <1>2, <1>5, <1>7, <1>8 DEF Fits, list

-----------------------------------------------------------------------------
(* The steps of the face tracker. *)

\* The faces of the tracks that ByteTrack returns have these tracks' ids.
LEMMA TracksFit ==
    ASSUME mode = ByDetect, NEW n \in Nat, NEW out \in SUBSET (1..n), NEW last
    PROVE  Fits(Sublist([id \in 1..n |-> Face(id, FALSE)], out), last)
<1> DEFINE all == [id \in 1..n |-> Face(id, FALSE)]
           part == Sublist(all, out)
<1>1. \A id \in 1..n : all[id] = [id |-> id, state |-> "detect", low |-> FALSE]
  BY DEF Face
<1>2. \A id \in 1..n : all[id] \in Faces /\ all[id].id = id /\ all[id].state = "detect"
  <2> SUFFICES ASSUME NEW id \in 1..n
               PROVE  all[id] \in Faces /\ all[id].id = id /\ all[id].state = "detect"
    OBVIOUS
  <2>1. all[id] = [id |-> id, state |-> "detect", low |-> FALSE]
    BY <1>1
  <2>2. id \in Int
    OBVIOUS
  <2> HIDE DEF all
  <2> QED BY <2>1, <2>2 DEF Faces, States
<1>3. DOMAIN all = 1..n /\ all = [id \in 1..n |-> all[id]]
  OBVIOUS
<1> HIDE DEF all
<1>11. all \in Seq(Faces)
  BY <1>2, <1>3
<1>4. Part(part, all)
  BY <1>3, SublistIsPart
<1> HIDE DEF part
<1>5. part \in Seq(Faces)
  BY <1>4, <1>11, PartOfFaces
<1>6. PICK place \in [1..Len(part) -> DOMAIN all] :
         /\ \A i, j \in 1..Len(part) : i # j => place[i] # place[j]
         /\ \A i \in 1..Len(part) : part[i] = all[place[i]]
  BY <1>4 DEF Part
<1>7. DOMAIN part = 1..Len(part)
  BY <1>5
<1>8. \A i \in DOMAIN part : place[i] \in 1..n /\ part[i].id = place[i] /\ part[i].state = "detect"
  <2> SUFFICES ASSUME NEW i \in 1..Len(part)
               PROVE  place[i] \in 1..n /\ part[i].id = place[i] /\ part[i].state = "detect"
    BY <1>7
  <2>1. place[i] \in 1..n /\ part[i] = all[place[i]]
    BY <1>3, <1>6
  <2> QED BY <1>2, <2>1
<1>9. mode # Light
  BY DEF Light, ByDetect
<1>10. Fits(part, last)
  BY <1>5, <1>6, <1>7, <1>8, <1>9 DEF Fits
<1> QED BY <1>10 DEF part, all

\* What a frame may report.
FrameTypes == [status : {"none", "ok", "error"}, detected : BOOLEAN, count : Nat, recovery : BOOLEAN]

\* After a frame without error every face was tracked.
Tracked(list, status) == status = "ok" => \A i \in DOMAIN list : list[i].state # "detect"

\* The invariant: the list fits, and detection is not overdue.
IInv ==
    /\ mode \in Modes /\ interval \in Intervals(mode) /\ recovery \in BOOLEAN
    /\ index \in Int /\ lastId \in Int
    /\ Fits(tracking, lastId)
    /\ frame \in FrameTypes
    /\ Tracked(tracking, frame.status)
    /\ RecoverySearches
    /\ quiet \in Nat /\ quiet <= index % interval
    /\ mode = Light => lastId \in Nat /\ newest \in 0..lastId
    /\ ListsInv

\* What a frame leaves, newest apart.
AfterFrame ==
    /\ mode' = mode /\ interval' = interval /\ recovery' = recovery
    /\ index' \in Int /\ lastId' \in Int
    /\ Fits(tracking', lastId')
    /\ frame' \in FrameTypes
    /\ Tracked(tracking', frame'.status)
    /\ RecoverySearches'
    /\ quiet' \in Nat /\ quiet' <= index' % interval
    /\ mode = Light => /\ lastId' \in Nat /\ lastId' >= lastId
                       /\ \A id \in IdsOf(tracking') \ IdsOf(tracking) : id > lastId
    /\ [TrackerNext]_trackerVars

LEMMA IntervalFacts == ASSUME IInv PROVE interval \in Nat \ {0}
BY TrackAssumption DEF IInv

\* What a frame reports, and that one in which detection ran may report no face.
LEMMA ReportFacts ==
    ASSUME NEW status \in {"ok", "error"}, NEW detected \in BOOLEAN, NEW list \in Seq(Faces),
           recovery \in BOOLEAN, frame' = Report(status, detected, list)
    PROVE  /\ frame' \in FrameTypes /\ frame'.status = status
           /\ detected => RecoverySearches'
           /\ frame'.recovery = recovery /\ frame'.count = Len(list)
<1>1. frame' = [status |-> status, detected |-> detected, count |-> Len(list), recovery |-> recovery]
  BY DEF Report
<1>2. /\ frame'.status = status /\ frame'.detected = detected
      /\ frame'.recovery = recovery /\ frame'.count = Len(list)
  BY <1>1
<1>3. Len(list) \in Nat
  OBVIOUS
<1>4. frame' \in FrameTypes
  BY <1>1, <1>3 DEF FrameTypes
<1>5. detected => RecoverySearches'
  BY <1>2, Zenon DEF RecoverySearches
<1> QED BY <1>2, <1>4, <1>5

\* A detection starts from the faces tracked, or from none.
LEMMA BaseFits == ASSUME IInv PROVE Fits(Base, lastId) /\ IdsOf(Base) \subseteq IdsOf(tracking)
<1>1. CASE mode = Light
  BY <1>1 DEF Base, IInv
<1>2. CASE mode # Light
  <2>1. Base = <<>>
    BY <1>2 DEF Base
  <2>2. <<>> \in Seq(Faces) /\ DOMAIN <<>> = {}
    OBVIOUS
  <2> QED BY <2>1, <2>2 DEF Fits, IdsOf
<1> QED BY <1>1, <1>2

\* Suppression and tracking introduce no ids.
LEMMA SuppressionIds ==
    ASSUME NEW list \in Seq(Faces), NEW part \in Suppressions(list)
    PROVE  IdsOf(part) \subseteq IdsOf(list)
<1>1. PICK kept \in SUBSET DOMAIN list : part = Sublist(list, kept)
  BY DEF Suppressions
<1>2. Len(list) \in Nat /\ DOMAIN list = 1..Len(list)
  OBVIOUS
<1>3. Part(part, list)
  BY <1>1, <1>2, SublistIsPart
<1>4. part \in Seq(Faces)
  BY <1>3, PartOfFaces
<1>5. DOMAIN part = 1..Len(part)
  BY <1>4
<1> QED BY <1>3, <1>5 DEF Part, IdsOf

LEMMA StatusType == ASSUME NEW list, NEW yields PROVE Status(list, yields) \in {"ok", "error"}
BY DEF Status

\* The five kinds of frame.
LEMMA DetectionFailsStep ==
    ASSUME IInv, DetectionFails PROVE AfterFrame
<1>1. Fits(Base, lastId) /\ IdsOf(Base) \subseteq IdsOf(tracking)
  BY BaseFits
<1>2. tracking' \in Suppressions(Base) /\ frame' = Report("error", TRUE, <<>>)
      /\ quiet' = 0 /\ index' = index + 1
      /\ UNCHANGED <<mode, interval, recovery, lastId, trackerVars>>
  BY DEF DetectionFails
<1>3. Fits(tracking', lastId) /\ Base \in Seq(Faces)
  BY <1>1, <1>2, SuppressionFits DEF Fits
<1>4. IdsOf(tracking') \subseteq IdsOf(tracking)
  BY <1>1, <1>2, <1>3, SuppressionIds
<1>5. frame' \in FrameTypes /\ frame'.status = "error" /\ RecoverySearches'
  <2>1. <<>> \in Seq(Faces)
    OBVIOUS
  <2> QED BY <1>2, <2>1, ReportFacts DEF IInv
<1>6. Tracked(tracking', frame'.status)
  BY <1>5 DEF Tracked
<1>7. quiet' \in Nat /\ quiet' <= index' % interval /\ index' \in Int
  <2>1. index + 1 \in Int
    BY DEF IInv
  <2>2. (index + 1) % interval \in 0..(interval - 1)
    BY <2>1, IntervalFacts, ModStep
  <2> QED BY <1>2, <2>1, <2>2, IntervalFacts
<1>8. lastId' = lastId /\ lastId \in Int /\ (mode = Light => lastId' \in Nat /\ lastId' >= lastId)
  BY <1>2 DEF IInv
<1>9. Fits(tracking', lastId')
  BY <1>2, <1>3
<1>10. \A id \in IdsOf(tracking') \ IdsOf(tracking) : id > lastId
  BY <1>4
<1>11. mode' = mode /\ interval' = interval /\ recovery' = recovery /\ [TrackerNext]_trackerVars
  BY <1>2
<1> QED BY <1>5, <1>6, <1>7, <1>8, <1>9, <1>10, <1>11 DEF AfterFrame

\* A list that is tracked in a frame where detection ran.
LEMMA DetectedStep ==
    ASSUME IInv, NEW list, NEW last \in Int, Fits(list, last), NEW yields \in YieldsOf(list),
           tracking' = TrackAll(list, yields),
           frame' = Report(Status(list, yields), TRUE, tracking'),
           lastId' = last, quiet' = 0, index' \in Int,
           UNCHANGED <<mode, interval, recovery>>, [TrackerNext]_trackerVars,
           mode = Light => /\ last \in Nat /\ last >= lastId
                           /\ \A id \in IdsOf(list) \ IdsOf(tracking) : id > lastId
    PROVE  AfterFrame
<1>1. /\ Fits(tracking', last)
      /\ Status(list, yields) = "ok" => \A i \in DOMAIN tracking' : tracking'[i].state # "detect"
      /\ IdsOf(tracking') \subseteq IdsOf(list)
  BY TrackAllFits
<1>2. frame' \in FrameTypes /\ frame'.status = Status(list, yields) /\ RecoverySearches'
  <2>1. tracking' \in Seq(Faces)
    BY <1>1 DEF Fits
  <2> QED BY <2>1, StatusType, ReportFacts DEF IInv
<1>3. Tracked(tracking', frame'.status)
  BY <1>1, <1>2 DEF Tracked
<1>4. quiet' \in Nat /\ quiet' <= index' % interval
  <2>1. index' % interval \in 0..(interval - 1)
    BY IntervalFacts, ModStep
  <2> QED BY <2>1, IntervalFacts
<1> QED BY <1>1, <1>2, <1>3, <1>4 DEF AfterFrame, IInv

LEMMA DetectAndTrackStep ==
    ASSUME IInv, DetectAndTrack PROVE AfterFrame
<1>1. PICK old \in Suppressions(Base), new \in DetectFace :
        LET faces == old \o new.faces
        IN \E yields \in YieldsOf(faces) :
             /\ Len(faces) <= MaxTracked
             /\ tracking' = TrackAll(faces, yields)
             /\ frame' = Report(Status(faces, yields), TRUE, tracking')
             /\ lastId' = new.lastId
  BY DEF DetectAndTrack
<1> DEFINE faces == old \o new.faces
<1>2. PICK yields \in YieldsOf(faces) :
             /\ tracking' = TrackAll(faces, yields)
             /\ frame' = Report(Status(faces, yields), TRUE, tracking')
             /\ lastId' = new.lastId
  BY <1>1
<1>3. /\ mode # ByDetect /\ quiet' = 0 /\ index' = index + 1 /\ index' \in Int
      /\ UNCHANGED <<mode, interval, recovery>> /\ [TrackerNext]_trackerVars
  BY DEF DetectAndTrack, IInv
<1>4. Fits(Base, lastId) /\ IdsOf(Base) \subseteq IdsOf(tracking) /\ Base \in Seq(Faces)
  BY BaseFits DEF Fits
<1>5. Fits(old, lastId) /\ IdsOf(old) \subseteq IdsOf(tracking)
  BY <1>4, SuppressionFits, SuppressionIds
<1>6. /\ Fits(new.faces, new.lastId) /\ new.lastId \in Int
      /\ mode = Light =>
           /\ new.lastId \in Nat /\ new.lastId >= lastId
           /\ \A i \in DOMAIN new.faces : new.faces[i].id > lastId
  BY <1>3, DetectedFacts DEF IInv
<1>7. Fits(faces, new.lastId)
  BY <1>3, <1>5, <1>6, JoinedFits DEF IInv
<1>8. mode = Light => \A id \in IdsOf(faces) \ IdsOf(tracking) : id > lastId
  <2> SUFFICES ASSUME mode = Light, NEW i \in DOMAIN faces, faces[i].id \notin IdsOf(tracking)
               PROVE  faces[i].id > lastId
    BY DEF IdsOf
  <2>1. old \in Seq(Faces) /\ new.faces \in Seq(Faces)
    BY <1>5, <1>6 DEF Fits
  <2>2. \/ i \in DOMAIN old /\ faces[i] = old[i]
        \/ i - Len(old) \in DOMAIN new.faces /\ faces[i] = new.faces[i - Len(old)]
    BY <2>1
  <2>3. i \in DOMAIN old => old[i].id \in IdsOf(tracking)
    BY <1>5 DEF IdsOf
  <2> QED BY <1>6, <2>2, <2>3
<1> HIDE DEF faces
<1> QED BY <1>2, <1>3, <1>6, <1>7, <1>8, DetectedStep

LEMMA DetectAndTrackByIdStep ==
    ASSUME IInv, DetectAndTrackById PROVE AfterFrame
<1>1. /\ mode = ByDetect /\ quiet' = 0 /\ index' = index + 1 /\ index' \in Int
      /\ UNCHANGED <<mode, interval, recovery, lastId>> /\ lastId \in Int
  BY DEF DetectAndTrackById, IInv
<1>2. PICK confident \in Nat, weak \in Nat : Update(confident, weak)
  <2>1. AtMost(MaxBoxes, MaxFaces) \in Nat
    BY TrackAssumption DEF AtMost
  <2>2. 0..AtMost(MaxBoxes, MaxFaces) \subseteq Nat
    BY <2>1
  <2> QED BY <2>2 DEF DetectAndTrackById
<1>3. TrackerNext
  BY <1>2 DEF TrackerNext
<1>4. ListsInv'
  BY <1>2, UpdateStep DEF IInv
<1>5. nextTrackId' \in Nat /\ OutputStracks' \in SUBSET (1..nextTrackId')
  BY <1>4 DEF ListsInv, TypeOK, Ids, TrackedIds, OutputStracks
<1> DEFINE list == Sublist([id \in 1..nextTrackId' |-> Face(id, FALSE)], OutputStracks')
<1>6. PICK faces : /\ faces = list
                   /\ \E yields \in YieldsOf(faces) :
                        /\ tracking' = TrackAll(faces, yields)
                        /\ frame' = Report(Status(faces, yields), TRUE, tracking')
  BY DEF DetectAndTrackById, FacesOfTracks
<1>7. PICK yields \in YieldsOf(faces) :
        /\ tracking' = TrackAll(faces, yields)
        /\ frame' = Report(Status(faces, yields), TRUE, tracking')
  BY <1>6
<1>8. Fits(faces, lastId)
  BY <1>1, <1>5, <1>6, TracksFit
<1>9. mode # Light
  BY <1>1 DEF Light, ByDetect
<1> HIDE DEF list
<1> QED BY <1>1, <1>3, <1>7, <1>8, <1>9, DetectedStep

LEMMA TrackOnlyStep ==
    ASSUME IInv, TrackOnly PROVE AfterFrame
<1>1. PICK yields \in YieldsOf(tracking) :
        /\ ~MustRecover(tracking, yields)
        /\ tracking' = TrackAll(tracking, yields)
        /\ frame' = Report(Status(tracking, yields), FALSE, tracking')
  BY DEF TrackOnly
<1>2. /\ ~Due(index + 1) /\ quiet' = quiet + 1 /\ index' = index + 1
      /\ UNCHANGED <<mode, interval, recovery, lastId, trackerVars>>
  BY DEF TrackOnly
<1>3. /\ Fits(tracking', lastId)
      /\ Status(tracking, yields) = "ok" => \A i \in DOMAIN tracking' : tracking'[i].state # "detect"
      /\ IdsOf(tracking') \subseteq IdsOf(tracking)
  BY <1>1, TrackAllFits DEF IInv
<1>4. tracking' \in Seq(Faces)
  BY <1>3 DEF Fits
<1>5. /\ frame' \in FrameTypes /\ frame'.status = Status(tracking, yields)
      /\ frame'.recovery = recovery /\ frame'.count = Len(tracking')
  BY <1>1, <1>4, StatusType, ReportFacts DEF IInv
<1>6. RecoverySearches'
  <2> SUFFICES ASSUME frame'.status = "ok", frame'.recovery, frame'.count = 0 PROVE FALSE
    BY DEF RecoverySearches
  <2>1. tracking' = <<>>
    BY <1>4, <1>5
  <2> QED BY <1>1, <1>5, <2>1 DEF MustRecover
<1>7. Tracked(tracking', frame'.status)
  BY <1>3, <1>5 DEF Tracked
<1>8. quiet' \in Nat /\ quiet' <= index' % interval /\ index' \in Int
  <2>1. (index + 1) % interval # 0
    BY <1>2 DEF Due
  <2>2. index \in Int /\ quiet \in Nat /\ quiet <= index % interval
    BY DEF IInv
  <2>3. (index + 1) % interval = (index % interval) + 1 /\ index % interval \in Int
    <3>1. interval \in Nat \ {0}
      BY IntervalFacts
    <3>2. /\ index % interval \in 0..(interval - 1)
          /\ (index + 1) % interval # 0 => (index + 1) % interval = (index % interval) + 1
      BY <2>2, <3>1, ModStep
    <3> QED BY <2>1, <3>1, <3>2
  <2> QED BY <1>2, <2>2, <2>3
<1> QED BY <1>2, <1>3, <1>5, <1>6, <1>7, <1>8 DEF AfterFrame, IInv

LEMMA RecoverStep ==
    ASSUME IInv, Recover PROVE AfterFrame
<1>1. /\ ~Due(index + 1) /\ quiet' = 0
      /\ UNCHANGED <<mode, interval, recovery, trackerVars>>
  BY DEF Recover
<1>2. mode = Light /\ mode # ByDetect
  BY <1>1 DEF Due, Light, ByDetect
<1>3. CASE tracking' = <<>> /\ frame' = Report("error", TRUE, <<>>) /\ index' = index + 1 /\ lastId' = lastId
  <2>1. <<>> \in Seq(Faces) /\ DOMAIN <<>> = {}
    OBVIOUS
  <2>2. frame' \in FrameTypes /\ frame'.status = "error" /\ RecoverySearches'
    BY <1>3, <2>1, ReportFacts DEF IInv
  <2>3. Fits(tracking', lastId) /\ IdsOf(tracking') = {}
    BY <1>3, <2>1 DEF Fits, IdsOf
  <2>4. Tracked(tracking', frame'.status)
    BY <2>2 DEF Tracked
  <2>5. quiet' \in Nat /\ quiet' <= index' % interval /\ index' \in Int
    <3>1. index + 1 \in Int
      BY DEF IInv
    <3>2. (index + 1) % interval \in 0..(interval - 1)
      BY <3>1, IntervalFacts, ModStep
    <3> QED BY <1>1, <1>3, <3>1, <3>2, IntervalFacts
  <2>6. lastId' = lastId /\ lastId \in Int /\ (mode = Light => lastId' \in Nat /\ lastId' >= lastId)
    BY <1>3 DEF IInv
  <2>7. Fits(tracking', lastId')
    BY <1>3, <2>3
  <2>8. mode' = mode /\ interval' = interval /\ recovery' = recovery /\ [TrackerNext]_trackerVars
    BY <1>1
  <2> QED BY <2>2, <2>3, <2>4, <2>5, <2>6, <2>7, <2>8 DEF AfterFrame
<1>4. CASE \E new \in DetectFace : \E yields \in YieldsOf(new.faces) :
             /\ tracking' = TrackAll(new.faces, yields)
             /\ frame' = Report(Status(new.faces, yields), TRUE, tracking')
             /\ index' = 0
             /\ lastId' = new.lastId
  <2>0. PICK new \in DetectFace : \E yields \in YieldsOf(new.faces) :
             /\ tracking' = TrackAll(new.faces, yields)
             /\ frame' = Report(Status(new.faces, yields), TRUE, tracking')
             /\ index' = 0
             /\ lastId' = new.lastId
    BY <1>4
  <2>1. PICK yields \in YieldsOf(new.faces) :
             /\ tracking' = TrackAll(new.faces, yields)
             /\ frame' = Report(Status(new.faces, yields), TRUE, tracking')
             /\ index' = 0
             /\ lastId' = new.lastId
    BY <2>0
  <2>2. /\ Fits(new.faces, new.lastId) /\ new.lastId \in Int
        /\ mode = Light =>
             /\ new.lastId \in Nat /\ new.lastId >= lastId
             /\ \A i \in DOMAIN new.faces : new.faces[i].id > lastId
    BY <1>2, DetectedFacts DEF IInv
  <2>3. mode = Light => \A id \in IdsOf(new.faces) \ IdsOf(tracking) : id > lastId
    BY <2>2 DEF IdsOf
  <2>4. index' \in Int /\ [TrackerNext]_trackerVars
    BY <1>1, <2>1
  <2> QED BY <1>1, <2>1, <2>2, <2>3, <2>4, DetectedStep
<1> QED BY <1>3, <1>4 DEF Recover

LEMMA FrameStep ==
    ASSUME IInv, UpdateStream PROVE AfterFrame
<1>1. DetectionFails \/ DetectAndTrack \/ DetectAndTrackById \/ TrackOnly \/ Recover
  BY DEF UpdateStream
<1> QED BY <1>1, DetectionFailsStep, DetectAndTrackStep, DetectAndTrackByIdStep, TrackOnlyStep,
           RecoverStep

\* A frame keeps the invariant: the greatest id was given out, like all ids.
LEMMA UpdateStreamStep ==
    ASSUME IInv, UpdateStream PROVE IInv'
<1>1. AfterFrame
  BY FrameStep
<1>2. newest' = CHOOSE id \in {newest} \cup IdsOf(tracking') :
                  \A x \in {newest} \cup IdsOf(tracking') : x <= id
  BY DEF UpdateStream
<1>3. mode' = Light => lastId' \in Nat /\ newest' \in 0..lastId'
  <2> SUFFICES ASSUME mode = Light PROVE lastId' \in Nat /\ newest' \in 0..lastId'
    BY <1>1 DEF AfterFrame
  <2> DEFINE S == {newest} \cup IdsOf(tracking')
  <2>1. lastId' \in Nat /\ lastId' >= lastId /\ lastId \in Nat /\ newest \in 0..lastId
    BY <1>1 DEF AfterFrame, IInv
  <2>2. IdsOf(tracking') \subseteq 1..lastId'
    BY <1>1 DEF AfterFrame, Fits, IdsOf
  <2>3. S \in SUBSET (0..lastId') /\ S # {}
    BY <2>1, <2>2
  <2>4. newest' = CHOOSE id \in S : \A x \in S : x <= id
    BY <1>2
  <2> HIDE DEF S
  <2>5. \E id \in S : \A x \in S : x <= id
    BY <2>1, <2>3, MaxExists
  <2>6. newest' \in S
    BY <2>4, <2>5
  <2> QED BY <2>1, <2>3, <2>6
<1>4. Fits(tracking, lastId)'
  BY <1>1 DEF AfterFrame, Fits
<1>5. Tracked(tracking, frame.status)'
  BY <1>1 DEF AfterFrame, Tracked
<1>6. (mode \in Modes /\ interval \in Intervals(mode) /\ recovery \in BOOLEAN)'
  BY <1>1 DEF AfterFrame, IInv
<1>7. (frame \in FrameTypes)'
  BY <1>1 DEF AfterFrame, FrameTypes
<1>8. ListsInv'
  BY <1>1, ListsStep DEF AfterFrame, IInv
<1>9. (quiet \in Nat /\ quiet <= index % interval)'
  BY <1>1 DEF AfterFrame
<1> QED BY <1>1, <1>3, <1>4, <1>5, <1>6, <1>7, <1>8, <1>9 DEF AfterFrame, IInv

LEMMA ListsStutter == ListsInv /\ UNCHANGED trackerVars => ListsInv'
BY ListsStep

\* A step that leaves the list of faces or empties it.
LEMMA SetterStep ==
    ASSUME IInv,
           UNCHANGED <<mode, index, lastId, frame, newest, trackerVars>>,
           interval' \in Intervals(mode), recovery' \in BOOLEAN, quiet' \in {quiet, 0},
           quiet' = 0 \/ interval' = interval,
           tracking' \in {tracking, <<>>}
    PROVE  IInv'
<1>1. Fits(tracking', lastId) /\ Tracked(tracking', frame.status)
  <2>1. CASE tracking' = tracking
    BY <2>1 DEF IInv
  <2>2. CASE tracking' = <<>>
    <3>1. <<>> \in Seq(Faces) /\ DOMAIN <<>> = {}
      OBVIOUS
    <3> QED BY <2>2, <3>1 DEF Fits, Tracked
  <2> QED BY <2>1, <2>2
<1>2. Fits(tracking, lastId)'
  BY <1>1 DEF Fits
<1>3. Tracked(tracking, frame.status)'
  BY <1>1 DEF Tracked
<1>4. (quiet \in Nat /\ quiet <= index % interval)'
  <2>1. interval' \in Nat \ {0} /\ index \in Int
    BY TrackAssumption DEF IInv
  <2>2. index % interval' \in 0..(interval' - 1)
    BY <2>1, ModStep
  <2>3. CASE quiet' = 0
    <3>1. 0 <= index % interval'
      <4>1. PICK n \in Nat \ {0} : n = interval'
        BY <2>1
      <4>2. index % n \in 0..(n - 1)
        BY <2>1, ModStep
      <4>3. 0 <= index % n
        BY <4>2
      <4> QED BY <4>1, <4>3
    <3>2. index' = index
      OBVIOUS
    <3> QED BY <2>3, <3>1, <3>2
  <2>4. CASE quiet' = quiet /\ interval' = interval
    BY <2>4 DEF IInv
  <2> QED BY <2>3, <2>4
<1>5. ListsInv'
  BY ListsStutter DEF IInv
<1>6. RecoverySearches'
  BY DEF IInv, RecoverySearches
<1>7. (frame \in FrameTypes)'
  BY DEF IInv, FrameTypes
<1> QED BY <1>2, <1>3, <1>4, <1>5, <1>6, <1>7 DEF IInv

LEMMA StepInvariant == IInv /\ [Next]_vars => IInv'
<1> SUFFICES ASSUME IInv, [Next]_vars PROVE IInv'
  OBVIOUS
<1>1. CASE UpdateStream
  BY <1>1, UpdateStreamStep
<1>2. ASSUME NEW n \in Intervals(mode), SetTrackModeDetectInterval(n) PROVE IInv'
  <2>1. recovery \in BOOLEAN
    BY DEF IInv
  <2> QED BY <1>2, <2>1, SetterStep DEF SetTrackModeDetectInterval
<1>3. ASSUME NEW value \in BOOLEAN, SetTrackLostRecoveryMode(value) PROVE IInv'
  <2>1. interval \in Intervals(mode)
    BY DEF IInv
  <2> QED BY <1>3, <2>1, SetterStep DEF SetTrackLostRecoveryMode
<1>4. CASE ClearTrackingFace
  <2>1. interval \in Intervals(mode) /\ recovery \in BOOLEAN
    BY DEF IInv
  <2> QED BY <1>4, <2>1, SetterStep DEF ClearTrackingFace
<1>5. CASE UNCHANGED vars
  <2>1. interval \in Intervals(mode) /\ recovery \in BOOLEAN
    BY DEF IInv
  <2> QED BY <1>5, <2>1, SetterStep DEF vars
<1> QED BY <1>1, <1>2, <1>3, <1>4, <1>5 DEF Next

LEMMA InitInvariant == Init => IInv
<1> SUFFICES ASSUME Init PROVE IInv
  OBVIOUS
<1>1. interval \in Nat \ {0} /\ -1 \in Int
  BY TrackAssumption DEF Init
<1>2. -1 % interval \in 0..(interval - 1)
  BY <1>1, ModStep
<1>3. <<>> \in Seq(Faces) /\ DOMAIN <<>> = {}
  OBVIOUS
<1>4. Fits(tracking, lastId) /\ Tracked(tracking, frame.status)
  BY <1>3 DEF Init, Fits, Tracked
<1>5. frame = [status |-> "none", detected |-> FALSE, count |-> Len(<<>>), recovery |-> FALSE]
  BY DEF Init, Report
<1>6. Len(<<>>) = 0
  OBVIOUS
<1>7. frame \in FrameTypes /\ frame.status = "none"
  BY <1>5, <1>6 DEF FrameTypes
<1>8. RecoverySearches
  BY <1>7 DEF RecoverySearches
<1>9. ListsInv
  BY ListsInit DEF Init
<1>10. quiet \in Nat /\ quiet <= index % interval
  BY <1>1, <1>2 DEF Init
<1>11. mode \in Modes /\ interval \in Intervals(mode) /\ recovery \in BOOLEAN
  BY DEF Init
<1>12. index \in Int /\ lastId \in Nat /\ newest \in 0..lastId
  BY DEF Init
<1> QED BY <1>4, <1>7, <1>8, <1>9, <1>10, <1>11, <1>12 DEF IInv

LEMMA Invariant == Spec => []IInv
BY InitInvariant, StepInvariant, PTL DEF Spec

\* Two faces in one frame never have the same id, whatever was suppressed, lost or
\* left behind by a failed model.
THEOREM FacesHaveDistinctIds == Spec => []DistinctIds
<1>1. IInv => DistinctIds
  BY DEF IInv, Fits, DistinctIds
<1> QED BY <1>1, Invariant, PTL

\* No lost face stays in the list, and after a frame without error none is left
\* untracked.
THEOREM NoLostFace == Spec => []FacesAreTracked
<1>1. IInv => FacesAreTracked
  BY DEF IInv, Fits, Tracked, FacesAreTracked
<1> QED BY <1>1, Invariant, PTL

\* In recovery mode a frame without a face was searched.
THEOREM LostAreSearched == Spec => []RecoverySearches
<1>1. IInv => RecoverySearches
  BY DEF IInv
<1> QED BY <1>1, Invariant, PTL

\* Detection runs once in every interval, whenever recovery ran before.
THEOREM DetectionIsNotPutOff == Spec => []DetectionIsDue
<1>1. IInv => DetectionIsDue
  <2> SUFFICES ASSUME IInv PROVE quiet < interval
    BY DEF DetectionIsDue
  <2>1. interval \in Nat \ {0} /\ index \in Int /\ quiet \in Nat /\ quiet <= index % interval
    BY IntervalFacts DEF IInv
  <2>2. index % interval \in 0..(interval - 1)
    BY <2>1, ModStep
  <2> QED BY <2>1, <2>2
<1> QED BY <1>1, Invariant, PTL

\* In light tracking an id is given to one face only, once and for all.
THEOREM NewFacesHaveFreshIds == Spec => IdsAreFresh
<1> DEFINE New == mode = Light => \A id \in IdsOf(tracking') \ IdsOf(tracking) : id > newest
<1>1. IInv /\ [Next]_vars => [New]_vars
  <2> SUFFICES ASSUME IInv, Next, mode = Light, NEW id \in IdsOf(tracking') \ IdsOf(tracking)
               PROVE  id > newest
    OBVIOUS
  <2>1. CASE UpdateStream
    <3>1. id > lastId /\ newest \in 0..lastId /\ lastId \in Nat /\ lastId' \in Nat
          /\ Fits(tracking', lastId')
      BY <2>1, FrameStep DEF AfterFrame, IInv
    <3>2. id \in 1..lastId'
      BY <3>1 DEF Fits, IdsOf
    <3> QED BY <3>1, <3>2
  <2>2. CASE tracking' = tracking
    BY <2>2 DEF IdsOf
  <2>3. CASE ClearTrackingFace
    <3>1. tracking' = <<>> /\ DOMAIN <<>> = {}
      BY <2>3 DEF ClearTrackingFace
    <3> QED BY <3>1 DEF IdsOf
  <2> QED BY <2>1, <2>2, <2>3 DEF Next, SetTrackModeDetectInterval, SetTrackLostRecoveryMode
<1> QED BY <1>1, Invariant, PTL DEF Spec, IdsAreFresh

\* The face tracker drives BYTETracker as BYTETracker expects, so that the theorems
\* about it hold for the tracks of a session.
THEOREM FacesRunTracker == Spec => TrackerSpec
<1>1. Init => TrackerInit
  BY DEF Init
<1>2. IInv /\ [Next]_vars => [TrackerNext]_trackerVars
  <2> SUFFICES ASSUME IInv, [Next]_vars PROVE [TrackerNext]_trackerVars
    OBVIOUS
  <2>1. CASE UpdateStream
    BY <2>1, FrameStep DEF AfterFrame
  <2>2. CASE UNCHANGED trackerVars
    BY <2>2
  <2> QED BY <2>1, <2>2 DEF Next, SetTrackModeDetectInterval, SetTrackLostRecoveryMode,
                         ClearTrackingFace, vars
<1> QED BY <1>1, <1>2, Invariant, PTL DEF Spec, TrackerSpec

-----------------------------------------------------------------------------
(* The limit on the number of faces. *)

\* Tracking makes a list no longer.
LEMMA TrackAllShortens ==
    ASSUME NEW list \in Seq(Faces), NEW yields
    PROVE  Len(TrackAll(list, yields)) <= Len(list)
<1> DEFINE after == [i \in DOMAIN list |->
                       IF i \in Done(list, yields) THEN TrackFace(list[i], yields[i]) ELSE list[i]]
           kept == {i \in DOMAIN list : after[i].state # "untracking"}
           n == Len(list)
<1>1. n \in Nat /\ DOMAIN after = 1..n /\ kept \in SUBSET (1..n)
  OBVIOUS
<1>2. TrackAll(list, yields) = Sublist(after, kept)
  BY DEF TrackAll
<1> HIDE DEF after, kept, n
<1>3. Len(TrackAll(list, yields)) = Cardinality(kept)
  BY <1>1, <1>2, SublistIsPart
<1>4. IsFiniteSet(1..n) /\ Cardinality(1..n) = n
  BY <1>1, FS_Interval
<1>5. Cardinality(kept) <= Cardinality(1..n)
  BY <1>1, <1>4, FS_Subset, Zenon
<1> QED BY <1>3, <1>4, <1>5 DEF n

\* A detection yields at most MaxFaces faces.
LEMMA DetectedFew ==
    ASSUME NEW new \in DetectFace
    PROVE  Len(new.faces) <= MaxFaces
<1>1. PICK boxes \in Boxes : new.faces = Candidates(boxes)
  BY DEF DetectFace
<1>2. PICK n \in 0..MaxBoxes : boxes \in [1..n -> {"small", "likely", "unlikely"}]
  BY DEF Boxes
<1> DEFINE kept == {i \in DOMAIN boxes : boxes[i] # "small"}
           m == AtMost(Len(Large(boxes)), MaxFaces)
<1>3. n \in Nat /\ DOMAIN boxes = 1..n /\ kept \in SUBSET (1..n)
  BY <1>2, TrackAssumption
<1>4. Large(boxes) = Sublist(boxes, kept)
  BY DEF Large
<1> HIDE DEF kept
<1>5. Len(Large(boxes)) \in Nat
  BY <1>3, <1>4, SublistIsPart DEF Part
<1>6. m \in Nat /\ m <= MaxFaces
  BY <1>5, TrackAssumption DEF AtMost
<1> HIDE DEF m
<1>7. Len(Candidates(boxes)) = m
  BY <1>6 DEF Candidates, m
<1> QED BY <1>1, <1>6, <1>7

LEMMA UnionBound ==
    ASSUME NEW S, NEW T, IsFiniteSet(S), IsFiniteSet(T)
    PROVE  /\ IsFiniteSet(S \cup T)
           /\ Cardinality(S \cup T) <= Cardinality(S) + Cardinality(T)
<1>1. /\ IsFiniteSet(S \cup T)
      /\ Cardinality(S \cup T) = Cardinality(S) + Cardinality(T) - Cardinality(S \cap T)
  BY FS_Union
<1>2. IsFiniteSet(S \cap T)
  BY FS_Intersection
<1>3. Cardinality(S \cap T) \in Nat /\ Cardinality(S) \in Nat /\ Cardinality(T) \in Nat
  BY <1>2, FS_CardinalityType
<1> QED BY <1>1, <1>3

\* A frame continues or starts no more tracks than it has boxes.
LEMMA FewTracks ==
    ASSUME ListsInv, NEW confident \in Nat, NEW weak \in Nat, Update(confident, weak)
    PROVE  IsFiniteSet(OutputStracks') /\ Cardinality(OutputStracks') <= confident + weak
<1>1. PICK first \in SUBSET (Confirmed \cup LostIds), second \in SUBSET Confirmed,
           third \in SUBSET Unconfirmed, n \in 0..confident :
             /\ Cardinality(first) + Cardinality(third) + n <= confident
             /\ Cardinality(second) <= weak
             /\ UpdateLists(first \cup second \cup third, n)
  BY DEF Update
<1> DEFINE found == (first \cup second) \cup third
<1>2. IsFiniteSet(first) /\ IsFiniteSet(second) /\ IsFiniteSet(third)
  <2>1. IsFiniteSet(1..nextTrackId)
    BY FS_Interval DEF ListsInv, TypeOK
  <2>2. first \subseteq 1..nextTrackId /\ second \subseteq 1..nextTrackId /\ third \subseteq 1..nextTrackId
    BY DEF ListsInv, TypeOK, Ids, Confirmed, Unconfirmed
  <2> QED BY <2>1, <2>2, FS_Subset
<1>3. n \in Nat /\ nextTrackId \in Nat
  BY DEF ListsInv, TypeOK
<1>4. IsFiniteSet(Fresh(n)) /\ Cardinality(Fresh(n)) = n
  <2>1. nextTrackId + 1 \in Int /\ nextTrackId + n \in Int
    BY <1>3
  <2>2. /\ IsFiniteSet((nextTrackId + 1)..(nextTrackId + n))
        /\ Cardinality((nextTrackId + 1)..(nextTrackId + n)) =
             IF nextTrackId + 1 > nextTrackId + n THEN 0
             ELSE (nextTrackId + n) - (nextTrackId + 1) + 1
    BY <2>1, FS_Interval
  <2> QED BY <1>3, <2>2 DEF Fresh
<1>5. /\ IsFiniteSet(first \cup second)
      /\ Cardinality(first \cup second) <= Cardinality(first) + Cardinality(second)
  BY <1>2, UnionBound
<1>6. IsFiniteSet(found) /\ Cardinality(found) <= Cardinality(first \cup second) + Cardinality(third)
  BY <1>2, <1>5, UnionBound
<1>7. /\ IsFiniteSet(found \cup Fresh(n))
      /\ Cardinality(found \cup Fresh(n)) <= Cardinality(found) + n
  <2> HIDE DEF found
  <2> QED BY <1>4, <1>6, UnionBound
<1>8. OutputStracks' \subseteq found \cup Fresh(n)
  <2>1. UpdateLists(found, n)
    BY <1>1
  <2> HIDE DEF found
  <2>2. \E a : trackedStracks' = Without(Continued(found, Fresh(n)), a)
    BY <2>1 DEF UpdateLists
  <2> QED BY <2>2 DEF OutputStracks, TrackedIds, Without, Continued
<1>9. Cardinality(found \cup Fresh(n)) <= confident + weak
  <2>1. /\ Cardinality(first) \in Nat /\ Cardinality(second) \in Nat /\ Cardinality(third) \in Nat
        /\ Cardinality(first \cup second) \in Nat /\ Cardinality(found) \in Nat
        /\ Cardinality(found \cup Fresh(n)) \in Nat
    BY <1>2, <1>5, <1>6, <1>7, FS_CardinalityType
  <2> HIDE DEF found
  <2> QED BY <1>1, <1>3, <1>5, <1>6, <1>7, <2>1
<1> HIDE DEF found
<1>10. /\ IsFiniteSet(OutputStracks')
       /\ Cardinality(OutputStracks') <= Cardinality(found \cup Fresh(n))
  BY <1>7, <1>8, FS_Subset
<1>11. Cardinality(OutputStracks') \in Nat /\ Cardinality(found \cup Fresh(n)) \in Nat
  BY <1>7, <1>10, FS_CardinalityType
<1> QED BY <1>3, <1>9, <1>10, <1>11

\* A frame that is not one of light tracking starts from no face.
LEMMA FrameWithin ==
    ASSUME IInv, mode # Light, UpdateStream
    PROVE  WithinMaxFaces'
<1>1. interval \in Nat \ {0} /\ \A i : Due(i)
  BY IntervalFacts DEF Due
<1>2. CASE DetectionFails
  <2>1. frame' = Report("error", TRUE, <<>>)
    BY <1>2 DEF DetectionFails
  <2> QED BY <2>1 DEF Report, WithinMaxFaces
<1>3. CASE DetectAndTrack
  <2>1. PICK old \in Suppressions(Base), new \in DetectFace :
          LET faces == old \o new.faces
          IN \E yields \in YieldsOf(faces) :
               /\ tracking' = TrackAll(faces, yields)
               /\ frame' = Report(Status(faces, yields), TRUE, tracking')
    BY <1>3 DEF DetectAndTrack
  <2>2. old = <<>>
    <3>1. Base = <<>> /\ <<>> \in Seq(Faces) /\ DOMAIN <<>> = {} /\ DOMAIN <<>> = 1..0
      BY DEF Base
    <3>2. PICK kept \in SUBSET {} : old = Sublist(<<>>, kept)
      BY <2>1, <3>1 DEF Suppressions
    <3>3. Len(old) = Cardinality({}) /\ Part(old, <<>>)
      BY <3>1, <3>2, SublistIsPart
    <3>4. old \in Seq(Faces) /\ Len(old) = 0
      BY <3>1, <3>3, PartOfFaces, FS_EmptySet
    <3> QED BY <3>4
  <2>3. new.faces \in Seq(Faces)
    <3>1. mode # ByDetect
      BY <1>3 DEF DetectAndTrack
    <3> QED BY <3>1, DetectedFacts DEF IInv, Fits
  <2>4. PICK faces \in Seq(Faces) : faces = old \o new.faces /\ Len(faces) = Len(new.faces)
    BY <2>2, <2>3
  <2>5. PICK yields : tracking' = TrackAll(faces, yields) /\ \E status : frame' = Report(status, TRUE, tracking')
    BY <2>1, <2>4
  <2>6. frame'.count = Len(tracking')
    BY <2>5 DEF Report
  <2>7. Len(tracking') <= Len(faces) /\ Len(faces) <= MaxFaces
    BY <2>4, <2>5, TrackAllShortens, DetectedFew
  <2>8. Len(tracking') \in Nat /\ Len(faces) \in Nat
    BY <1>3, DetectAndTrackStep DEF AfterFrame, Fits
  <2> QED BY <2>6, <2>7, <2>8, TrackAssumption DEF WithinMaxFaces
<1>4. CASE DetectAndTrackById
  <2>1. PICK confident \in 0..AtMost(MaxBoxes, MaxFaces), weak \in 0..AtMost(MaxBoxes, MaxFaces) :
          confident + weak <= AtMost(MaxBoxes, MaxFaces) /\ Update(confident, weak)
    BY <1>4 DEF DetectAndTrackById
  <2>2. AtMost(MaxBoxes, MaxFaces) \in Nat /\ AtMost(MaxBoxes, MaxFaces) <= MaxFaces
    BY TrackAssumption DEF AtMost
  <2>3. confident \in Nat /\ weak \in Nat /\ confident + weak <= MaxFaces
    BY <2>1, <2>2, TrackAssumption
  <2>4. IsFiniteSet(OutputStracks') /\ Cardinality(OutputStracks') <= MaxFaces
    <3>1. IsFiniteSet(OutputStracks') /\ Cardinality(OutputStracks') <= confident + weak
      BY <2>1, <2>3, FewTracks DEF IInv
    <3>2. Cardinality(OutputStracks') \in Nat
      BY <3>1, FS_CardinalityType
    <3> QED BY <2>3, <3>1, <3>2, TrackAssumption
  <2>5. nextTrackId' \in Nat /\ OutputStracks' \in SUBSET (1..nextTrackId')
    <3>1. ListsInv'
      BY <2>1, <2>3, UpdateStep DEF IInv
    <3> QED BY <3>1 DEF ListsInv, TypeOK, Ids, TrackedIds, OutputStracks
  <2> DEFINE all == [id \in 1..nextTrackId' |-> Face(id, FALSE)]
  <2>6. PICK faces : /\ faces = Sublist(all, OutputStracks')
                     /\ \E yields \in YieldsOf(faces) :
                          /\ tracking' = TrackAll(faces, yields)
                          /\ frame' = Report(Status(faces, yields), TRUE, tracking')
    BY <1>4 DEF DetectAndTrackById, FacesOfTracks
  <2>7. Len(faces) = Cardinality(OutputStracks')
    <3>1. DOMAIN all = 1..nextTrackId'
      OBVIOUS
    <3> HIDE DEF all
    <3> QED BY <2>5, <2>6, <3>1, SublistIsPart
  <2>8. faces \in Seq(Faces)
    <3>1. mode = ByDetect
      BY <1>4 DEF DetectAndTrackById
    <3> QED BY <2>5, <2>6, <3>1, TracksFit DEF Fits
  <2>9. frame'.count = Len(tracking') /\ Len(tracking') <= Len(faces)
    BY <2>6, <2>8, TrackAllShortens DEF Report
  <2>10. Len(tracking') \in Nat /\ Len(faces) \in Nat
    BY <1>4, <2>8, DetectAndTrackByIdStep DEF AfterFrame, Fits
  <2> QED BY <2>4, <2>7, <2>9, <2>10, TrackAssumption DEF WithinMaxFaces
<1>5. ~TrackOnly /\ ~Recover
  BY <1>1 DEF TrackOnly, Recover
<1> QED BY <1>2, <1>3, <1>4, <1>5 DEF UpdateStream

\* What the Python binding asserts of a result is true outside light tracking: a
\* frame there starts from no face, so that the limit of the detection is that of
\* the result, whatever BYTETracker remembers.
THEOREM LimitHoldsOutsideLight == Spec => [](mode # Light => WithinMaxFaces)
<1>1. Init => WithinMaxFaces
  BY DEF Init, Report, WithinMaxFaces
<1> DEFINE Limited == mode # Light => WithinMaxFaces
<1>2. IInv /\ Limited /\ [Next]_vars => Limited'
  <2> SUFFICES ASSUME IInv, Limited, [Next]_vars PROVE Limited'
    OBVIOUS
  <2>1. CASE UpdateStream
    <3>1. mode' = mode
      BY <2>1, FrameStep DEF AfterFrame
    <3> QED BY <2>1, <3>1, FrameWithin
  <2>2. CASE UNCHANGED <<mode, frame>>
    BY <2>2 DEF WithinMaxFaces
  <2> QED BY <2>1, <2>2 DEF Next, SetTrackModeDetectInterval, SetTrackLostRecoveryMode,
                         ClearTrackingFace, vars
<1> QED BY <1>1, <1>2, Invariant, PTL DEF Spec
=============================================================================
