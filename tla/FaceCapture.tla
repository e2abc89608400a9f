---------------------------- MODULE FaceCapture ----------------------------
(***************************************************************************)
(* The face capture selector (capture.cpp): from a stream of tracked       *)
(* frames it keeps the best few sightings of faces that have been stable   *)
(* for long enough.  Every member function holds the selector's mutex, so  *)
(* it is one action.                                                       *)
(*                                                                         *)
(* Abstractions: a face is its track, its place (the rectangle, whose      *)
(* geometry is left to Moved), its area, whether it passes the filters     *)
(* that look at one frame only, and its score.  A frame is compared with   *)
(* the one before it only, so that a face may drift.  Frame ids only       *)
(* matter through "newer than the last one".  The result vector is always  *)
(* sorted by score, then age, so it is kept as a set.                      *)
(***************************************************************************)
EXTENDS Integers, FiniteSets

CONSTANTS
    Configs,   \* the configurations clients pass, valid and invalid
    Features,  \* sets of model features a session may have been created with
    Frames(_), \* sets of faces a frame may show, for each configuration
    Moved(_, _, _), \* a configuration's limits are exceeded from one place to the next
    MaxTime    \* the last timestamp (a bound)

NoTrack == -1
NoPlace == 0
MaxOutputCount == 8

ASSUME CaptureAssumption ==
    /\ MaxTime \in Nat
    /\ \A c \in Configs : c.interval \in Nat /\ c.outputCount \in Nat /\ c.stable \in Nat
    /\ \A c \in Configs : \A faces \in Frames(c) : \A f \in faces :
         f.track \in Int /\ f.place \in Int \ {NoPlace} /\ f.score \in Int

VARIABLES
    config, status, hasInput, finished, collecting, lastTime, collectStart,
    activeTrack, stableSince, lastSeen, lastPlace, results,
    lastUpdate  \* state and reject reasons last reported to the client

trackVars == <<activeTrack, stableSince, lastSeen, lastPlace>>
vars == <<config, status, hasInput, finished, collecting, lastTime, collectStart,
          activeTrack, stableSince, lastSeen, lastPlace, results, lastUpdate>>

Report(state, rejects) == [state |-> state, rejects |-> rejects]
Distance(x, y) == IF x > y THEN x - y ELSE y - x

\* The order of the result vector.
Better(x, y) == x.score > y.score \/ (x.score = y.score /\ x.time < y.time)

-----------------------------------------------------------------------------
Init ==
    /\ config \in Configs  \* a default configuration, unused while status says invalid
    /\ status = "invalid_config"
    /\ hasInput = FALSE /\ finished = FALSE /\ collecting = FALSE
    /\ lastTime = 0 /\ collectStart = 0
    /\ activeTrack = NoTrack /\ stableSince = 0 /\ lastSeen = 0 /\ lastPlace = NoPlace
    /\ results = {}
    /\ lastUpdate = Report("IDLE", {})

ValidateConfig(c) ==
    /\ c.ranges
    /\ c.outputCount \in 1..MaxOutputCount
    /\ c.maxCollect >= c.collect

ResetTrackState ==
    /\ activeTrack' = NoTrack
    /\ stableSince' = 0
    /\ lastSeen' = 0
    /\ lastPlace' = NoPlace

\* Mutant: the results survive a reset, in which time starts again.
ResetButResults ==
    /\ hasInput' = FALSE /\ finished' = FALSE /\ collecting' = FALSE
    /\ lastTime' = 0 /\ collectStart' = 0
    /\ UNCHANGED results
    /\ lastUpdate' = Report("IDLE", {})
    /\ ResetTrackState

ResetState ==
    /\ hasInput' = FALSE /\ finished' = FALSE /\ collecting' = FALSE
    /\ lastTime' = 0 /\ collectStart' = 0
    /\ results' = {}
    /\ lastUpdate' = Report("IDLE", {})
    /\ ResetTrackState

\* A refused configuration leaves the old one in place, and unusable.
Configure(c, enabled) ==
    /\ ResetState
    /\ \/ /\ ~ValidateConfig(c)
          /\ status' = "invalid_config"
          /\ UNCHANGED config
       \/ /\ ValidateConfig(c) /\ ~(c.needs \subseteq enabled)
          /\ status' = "feature_off"
          /\ UNCHANGED config
       \/ /\ ValidateConfig(c) /\ c.needs \subseteq enabled
          /\ status' = "ok"
          /\ config' = c

Reset == ResetState /\ UNCHANGED <<config, status>>

-----------------------------------------------------------------------------
(* Update. *)

\* The frame is evaluated.  Otherwise Update returns early, with an error or
\* with LastUpdate, and changes nothing; so does a frame without a size, which
\* is not told apart from one that is not newer.  image: the pixels could be
\* converted; Configure does not run between NeedsPixels and Update, because the
\* capture session configures its selector once.
Accepts(time, newer, image) ==
    /\ status = "ok" /\ ~finished
    /\ hasInput => newer /\ time > lastTime
    /\ config.pixels => image

RecordInput(time) == hasInput' = TRUE /\ lastTime' = time

\* The largest face, the smallest track id among equals; always-detect mode
\* gives every face the same id, and then the first of the frame is taken.
Largest(faces) ==
    {f \in faces : \A g \in faces : g.area < f.area \/ (g.area = f.area /\ f.track <= g.track)}

\* The faces Update may evaluate in this frame: one of the largest, or none.
Selected(faces) == IF faces = {} THEN {{}} ELSE {{f} : f \in Largest(faces)}

UpdateNoFace(time) ==
    /\ RecordInput(time)
    /\ IF activeTrack >= 0 /\ time - lastSeen <= config.grace
       THEN lastUpdate' = Report("TRACK_LOST", {"NO_FACE"}) /\ UNCHANGED trackVars
       ELSE lastUpdate' = Report("IDLE", {"NO_FACE"}) /\ ResetTrackState
    /\ UNCHANGED <<config, status, finished, collecting, collectStart, results>>

CountRejects(faces) ==
    IF config.faceCount /\ Cardinality(faces) # 1 THEN {"MULTIPLE_FACES"} ELSE {}

\* A degenerate rectangle: an early return, with the state still IDLE.
UpdateEmptyRect(time, faces) ==
    /\ RecordInput(time)
    /\ lastUpdate' = Report("IDLE", CountRejects(faces) \cup {"OUT_OF_BOUNDS"})
    /\ UNCHANGED <<config, status, finished, collecting, collectStart, results, trackVars>>

\* Mutant: a change of track keeps the clock of the track before.
StableSinceAcrossTracks(face, time) ==
    IF config.stability /\ lastPlace # NoPlace /\ Moved(config, lastPlace, face.place)
    THEN time ELSE stableSince

\* UpdateStability: since when no frame has moved from the one before it.
StableSince(face, time) ==
    IF \/ activeTrack # face.track
       \/ config.stability /\ lastPlace # NoPlace /\ Moved(config, lastPlace, face.place)
    THEN time ELSE stableSince

UpdateStability(face, time) ==
    /\ activeTrack' = face.track
    /\ lastSeen' = time
    /\ stableSince' = StableSince(face, time)
    /\ lastPlace' = IF config.stability THEN face.place
                    ELSE IF activeTrack # face.track THEN NoPlace ELSE lastPlace

StabilityRejects(face, time) ==
    IF config.stability /\ time - StableSince(face, time) < config.stable
    THEN {"UNSTABLE"} ELSE {}

Rejects(face, faces, time) ==
    CountRejects(faces) \cup StabilityRejects(face, time)
      \cup IF face.ok THEN {} ELSE {"FRAME_FILTERS"}

-----------------------------------------------------------------------------
(* AddCandidate. *)

Candidate(face, time) == [time |-> time, track |-> face.track, score |-> face.score]

\* Results of the same track within the minimal interval.
Near(c) ==
    {e \in results : config.interval > 0 /\ e.track = c.track
                       /\ Distance(e.time, c.time) < config.interval}

First(S) == CHOOSE e \in S : \A x \in S \ {e} : Better(e, x)
Last(S) == CHOOSE e \in S : \A x \in S \ {e} : Better(x, e)

\* Mutants: a result too near is not looked for; it is replaced by a worse one.
InsertAlways(c) == results \cup {c}
ReplaceAlways(c) ==
    IF Near(c) = {} THEN results \cup {c} ELSE (results \ {First(Near(c))}) \cup {c}

Insert(c) ==
    IF Near(c) = {} THEN results \cup {c}
    ELSE IF c.score > First(Near(c)).score THEN (results \ {First(Near(c))}) \cup {c}
    ELSE results

\* Mutant: the vector is cut before it is sorted, which drops the newcomer.
TrimNewest(S) ==
    IF Cardinality(S) > config.outputCount
    THEN S \ {CHOOSE e \in S : \A x \in S : x.time <= e.time} ELSE S

\* resize(outputCount) after the sort: there is at most one too many.
Trim(S) == IF Cardinality(S) > config.outputCount THEN S \ {Last(S)} ELSE S

\* Mutant: the client is told to take results that are not complete yet.
ReadyByTime(time, start) == time - start >= config.collect

Ready(time, start) ==
    Cardinality(results') >= config.outputCount /\ time - start >= config.collect

AcceptFace(face, time) ==
    LET start == IF collecting THEN collectStart ELSE time
        over == time - start >= config.maxCollect
    IN /\ results' = Trim(Insert(Candidate(face, time)))
       /\ collecting' = TRUE
       /\ collectStart' = start
       /\ finished' = over
       /\ lastUpdate' = Report(IF over THEN "FINISHED"
                               ELSE IF Ready(time, start) THEN "READY" ELSE "COLLECTING", {})

RejectFace(rejects, time) ==
    LET over == collecting /\ time - collectStart >= config.maxCollect
    IN /\ finished' = over
       /\ lastUpdate' = Report(IF over THEN "FINISHED" ELSE "STABILIZING", rejects)
       /\ UNCHANGED <<results, collecting, collectStart>>

UpdateFace(face, faces, time) ==
    /\ RecordInput(time)
    /\ UpdateStability(face, time)
    /\ IF Rejects(face, faces, time) = {}
       THEN AcceptFace(face, time)
       ELSE RejectFace(Rejects(face, faces, time), time)
    /\ UNCHANGED <<config, status>>

Update(faces, seen, time, newer, image) ==
    IF ~Accepts(time, newer, image) THEN UNCHANGED vars
    ELSE \/ seen = {} /\ UpdateNoFace(time)
         \/ \E face \in seen :
              \/ face.area = 0 /\ UpdateEmptyRect(time, faces)
              \/ face.area > 0 /\ UpdateFace(face, faces, time)

Finish ==
    /\ status = "ok"
    /\ finished' = TRUE
    /\ UNCHANGED <<config, status, hasInput, collecting, lastTime, collectStart, trackVars,
                   results, lastUpdate>>

Next ==
    \/ \E c \in Configs, enabled \in Features : Configure(c, enabled)
    \/ \E faces \in Frames(config), time \in 1..MaxTime, newer, image \in BOOLEAN :
         \E seen \in Selected(faces) : Update(faces, seen, time, newer, image)
    \/ Finish
    \/ Reset

Spec == Init /\ [][Next]_vars

-----------------------------------------------------------------------------
(* Properties. *)

\* Every variable has its type.
TypeOK ==
    /\ config \in Configs
    /\ status \in {"ok", "invalid_config", "feature_off"}
    /\ hasInput \in BOOLEAN /\ finished \in BOOLEAN /\ collecting \in BOOLEAN
    /\ lastTime \in Nat /\ collectStart \in Nat
    /\ activeTrack \in Int /\ stableSince \in Nat /\ lastSeen \in Nat /\ lastPlace \in Int
    /\ results \subseteq [time : Nat, track : Int, score : Int]
    /\ lastUpdate.state \in {"IDLE", "STABILIZING", "COLLECTING", "READY", "FINISHED", "TRACK_LOST"}

\* Two results of one track are minCandidateIntervalMs apart, whatever has been
\* replaced in between: AddCandidate looks for one near result only, and a
\* replacement moves the result forward in time.
Spaced ==
    \A x, y \in results :
        x # y /\ x.track = y.track => Distance(x.time, y.time) >= config.interval

\* No more than outputCount results, all from frames already seen and, once the
\* selector is ready, not one less.
Bounded ==
    /\ IsFiniteSet(results) /\ Cardinality(results) <= config.outputCount
    /\ \A r \in results : hasInput /\ r.time <= lastTime
    /\ lastUpdate.state = "READY" => Cardinality(results) = config.outputCount

\* "Update the bounded Top-N result set": except by a reset, the results never
\* get worse.  Rank by rank, an evicted or replaced sighting gives way to one
\* that scores at least as high.
AtLeast(S, v) == Cardinality({r \in S : r.score >= v})
ResultsNeverWorsen ==
    [][\A v \in {r.score : r \in results} :
          results' # {} => AtLeast(results', v) >= AtLeast(results, v)]_vars

\* "Stop accepting frames while preserving the current result set": a finished
\* selector keeps results and verdict until it is reset or reconfigured, which
\* empties it, however frames, finishes and timeouts follow one another.
FinishedFrozen ==
    [][finished => \/ finished' /\ results' = results /\ lastUpdate' = lastUpdate
                   \/ ~finished' /\ results' = {} /\ ~hasInput']_vars

\* What test_face_capture_selector_contract.cpp expects of the first sighting
\* after a reset: with a stability filter it is unstable, and not collected.
FirstSightingUnstable ==
    [][~hasInput /\ hasInput' /\ config.stability /\ config.stable > 0 => results' = {}]_vars
=============================================================================
