---------------------------- MODULE SessionCache ----------------------------
(***************************************************************************)
(* How threads share a face session, and what a session remembers of its   *)
(* faces.  FaceSession::FaceDetectAndTrack holds the session's mutex while *)
(* it tracks a frame and fills the result caches; its callers read the     *)
(* caches after it has returned: HFExecuteFaceTrackSnapshot to copy them   *)
(* into a snapshot, and HFUpdateFaceCaptureSession, which holds the mutex  *)
(* of its capture session all along, to decode the faces for the selector. *)
(* FacesProcess takes faces a client kept, perhaps of an earlier frame,    *)
(* and adds to the histories of the faces that are tracked now.            *)
(* FaceFeatureExtract leaves a feature in a cache of the session, which    *)
(* its callers copy, too, after it has returned.                           *)
(*                                                                         *)
(* Abstractions: the tracker finds the faces that the frame shows, by      *)
(* their ids; a face is told by its id, frame and index; the caches are    *)
(* filled and read together, one face at a time; of the pipeline's results *)
(* only those of the interaction, the ones with a history, are kept; a     *)
(* selector's results are the faces it was last updated with; a feature is *)
(* the face it was extracted from.                                         *)
(***************************************************************************)
EXTENDS FaceAction, Sequences

CONSTANTS
    Threads, Sessions, Captures,
    SessionOf,  \* the session each capture session pins
    Plans,      \* who calls what: functions from threads to sets of operations,
                \* each a pair of a name and a session or capture session, and
                \* the number of calls (a bound)
    Frames,     \* the frames clients pass
    IdsIn,      \* IdsIn[f]: the ids of the faces in frame f
    Seen,       \* what the eyes of a face may look like
    Nobody, Garbage

\* Sessions and capture sessions are told apart, and each operation is called on
\* the kind of handle it takes.
ASSUME SessionAssumption ==
    /\ Nobody \notin Threads \cup Captures
    /\ Sessions \cap Captures = {}
    /\ SessionOf \in [Captures -> Sessions]
    /\ \A f \in Frames : IdsIn[f] \in Seq(Int)
    /\ \A p \in Plans, t \in Threads :
         /\ p[t].calls \in Nat
         /\ \A op \in p[t].operations :
              \/ op[1] \in {"snapshot", "process", "clear", "extract", "align"} /\ op[2] \in Sessions
              \/ op[1] \in {"update", "assess", "results", "finish", "reset"} /\ op[2] \in Captures

VARIABLES
    plan,      \* what each thread calls
    holder,    \* FaceSession::m_mtx_
    serial,    \* HF_FaceCaptureSession::mutex
    tracking,  \* m_face_track_->trackingFace
    cache,     \* m_detect_cache_ and the caches filled with it
    results,   \* m_action_*_results_cache_
    feature,   \* m_face_feature_cache_: whose feature it is, or nobody's
    selected,  \* the results of each capture session's selector
    copied,    \* result_cache
    dirty,     \* result_cache_dirty
    pc, call, calls,
    held,      \* the snapshot each client holds
    last,      \* the last result each thread was given: its frame and faces
    lent       \* the view of a result_cache each thread was lent

caches == <<tracking, cache, results, feature>>
captured == <<selected, copied, dirty, lent>>
vars == <<plan, holder, serial, caches, captured, pc, call, calls, held, last>>

\* A face as a token describes it, and the faces of a frame.
Token(id, f, i) == [id |-> id, frame |-> f, index |-> i]
FacesOf(f) == [i \in DOMAIN IdsIn[f] |-> Token(IdsIn[f][i], f, i)]

\* A face as the tracker keeps it, with the window of its actions.
Face(id, f, actions) == [id |-> id, frame |-> f, actions |-> actions]
TokensOf(faces) == [i \in DOMAIN faces |-> Token(faces[i].id, faces[i].frame, i)]

Operation(t) == call[t].operation
Target(t) == call[t].target
Session(t) == IF Target(t) \in Captures THEN SessionOf[Target(t)] ELSE Target(t)

\* operation, target, frame or face; faces still expected and faces read; whether
\* another thread has rewritten the cache that this one is reading.
NoCall == [operation |-> "none", target |-> Nobody, frame |-> Nobody, face |-> Nobody,
           count |-> 0, read |-> <<>>, stale |-> FALSE]

\* current: until the next update, reset or finish of the capture session;
\* dangling: result_cache has been rewritten since.
NoLoan == [capture |-> Nobody, view |-> <<>>, current |-> FALSE, dangling |-> FALSE]

-----------------------------------------------------------------------------
Init ==
    /\ plan \in Plans
    /\ holder = [s \in Sessions |-> Nobody]
    /\ serial = [c \in Captures |-> Nobody]
    /\ tracking = [s \in Sessions |-> <<>>]
    /\ cache = [s \in Sessions |-> <<>>]
    /\ results = [s \in Sessions |-> <<>>]
    /\ feature = [s \in Sessions |-> Nobody]
    /\ selected = [c \in Captures |-> <<>>]
    /\ copied = [c \in Captures |-> <<>>]
    /\ dirty = [c \in Captures |-> TRUE]
    /\ pc = [t \in Threads |-> "idle"]
    /\ call = [t \in Threads |-> NoCall]
    /\ calls = [t \in Threads |-> 0]
    /\ held = [t \in Threads |-> <<>>]
    /\ last = [t \in Threads |-> NoCall]
    /\ lent = [t \in Threads |-> NoLoan]

Goto(t, label) == pc' = [pc EXCEPT ![t] = label]

\* The operations on a session or a capture session that track a frame.
Tracks == {"snapshot", "update"}

\* The faces whose tokens the clients have copied, for any thread to use.
Kept == UNION {{held[u][i] : i \in DOMAIN held[u]} : u \in Threads}

\* A client calls HFExecuteFaceTrackSnapshot, HFMultipleFacePipelineProcess,
\* HFSessionClearTrackingFace, HFFaceFeatureExtract (...To, ...Cpy) or
\* Session::FaceFeatureExtractWithAlignmentImage on a session, or
\* HFUpdateFaceCaptureSession, ...WithSnapshot, HFGetFaceCaptureResults,
\* HFFinish... or HFReset... on a capture session.
Begin(t) ==
    /\ pc[t] = "idle" /\ calls[t] < plan[t].calls
    /\ calls' = [calls EXCEPT ![t] = @ + 1]
    /\ \E op \in plan[t].operations :
         \E f \in IF op[1] \in Tracks THEN Frames ELSE {Nobody},
            face \in IF op[1] = "extract" THEN Kept ELSE {Nobody} :
           call' = [call EXCEPT ![t] = [NoCall EXCEPT !.operation = op[1], !.target = op[2],
                                                      !.frame = f, !.face = face]]
         /\ Goto(t, CASE op[1] = "update" -> "serialize" [] op[1] = "snapshot" -> "lock"
                      [] OTHER -> "run")
    /\ UNCHANGED <<plan, holder, serial, caches, captured, held, last>>

\* Mutant: calls on one capture session are not serialized.
SerializeNothing(t) ==
    /\ pc[t] = "serialize"
    /\ Goto(t, "lock")
    /\ UNCHANGED <<plan, holder, serial, caches, captured, call, calls, held, last>>

Serialize(t) ==
    /\ pc[t] = "serialize" /\ serial[Target(t)] = Nobody
    /\ serial' = [serial EXCEPT ![Target(t)] = t]
    /\ Goto(t, "lock")
    /\ UNCHANGED <<plan, holder, caches, captured, call, calls, held, last>>

\* The capture session's mutex is released with the call.
Unserialize(t) ==
    serial' = [c \in Captures |-> IF c = Target(t) THEN Nobody ELSE serial[c]]

Return(t, result) ==
    /\ Goto(t, "idle")
    /\ call' = [call EXCEPT ![t] = NoCall]
    /\ last' = [last EXCEPT ![t] = result]
    /\ Unserialize(t)

\* Whoever is at one of these places is reading what is being rewritten.
Overtake(t, places) ==
    call' = [u \in Threads |->
               [call[u] EXCEPT !.stale =
                  @ \/ (u # t /\ pc[u] \in places /\ Session(u) = Session(t))]]

-----------------------------------------------------------------------------
(* FaceDetectAndTrack. *)

\* Mutant: the caches of the last frame are not cleared.
LockOnly(t) ==
    /\ pc[t] = "lock" /\ holder[Session(t)] = Nobody
    /\ holder' = [holder EXCEPT ![Session(t)] = t]
    /\ Goto(t, "track")
    /\ UNCHANGED <<plan, serial, caches, captured, call, calls, held, last>>

\* The caches are cleared, under the readers of another thread if there are any.
Lock(t) ==
    /\ pc[t] = "lock" /\ holder[Session(t)] = Nobody
    /\ holder' = [holder EXCEPT ![Session(t)] = t]
    /\ cache' = [cache EXCEPT ![Session(t)] = <<>>]
    /\ results' = [results EXCEPT ![Session(t)] = <<>>]
    /\ Overtake(t, {"view", "read"})
    /\ Goto(t, "track")
    /\ UNCHANGED <<plan, serial, tracking, feature, captured, calls, held, last>>

\* The window of a face stays with it for as long as it is tracked.
ActionsOf(s, id) ==
    LET known == {i \in DOMAIN tracking[s] : tracking[s][i].id = id}
    IN IF known = {} THEN NewPredictor ELSE tracking[s][CHOOSE i \in known : TRUE].actions

\* The faces of frame f, as the tracker keeps them after it.
Tracked(s, f) ==
    [i \in DOMAIN IdsIn[f] |-> Face(IdsIn[f][i], f, ActionsOf(s, IdsIn[f][i]))]

\* The faces that are in the tracker at some time during frame f.
Present(s, f) ==
    {tracking[s][i] : i \in DOMAIN tracking[s]} \cup {Tracked(s, f)[i] : i \in DOMAIN IdsIn[f]}

\* What a model that fails during frame f may leave in the tracker: of each face
\* at most what it was before the frame, if it comes behind the failing one, or
\* what it is in the frame, if it comes before it or is a new candidate.  nms
\* has sorted and thinned out the old ones.
Remains(s, f) ==
    {faces \in UNION {[1..n -> Present(s, f)] : n \in 0..(Len(tracking[s]) + Len(IdsIn[f]))} :
       \A i, j \in DOMAIN faces : i # j => faces[i].id # faces[j].id}

\* UpdateStreamWithStatus has tracked the frame.
Track(t) ==
    /\ pc[t] = "track"
    /\ tracking' = [tracking EXCEPT ![Session(t)] = Tracked(Session(t), call[t].frame)]
    /\ Goto(t, "fill")
    /\ UNCHANGED <<plan, holder, serial, cache, results, feature, captured, call, calls, held, last>>

\* Mutant: the early return leaves the mutex locked.
FailLocked(t) ==
    /\ pc[t] = "track"
    /\ \E faces \in Remains(Session(t), call[t].frame) :
         tracking' = [tracking EXCEPT ![Session(t)] = faces]
    /\ Return(t, last[t])
    /\ UNCHANGED <<plan, holder, cache, results, feature, captured, calls, held>>

\* A model failed: the caches stay empty, the call returns an error.
Fail(t) ==
    /\ pc[t] = "track"
    /\ \E faces \in Remains(Session(t), call[t].frame) :
         tracking' = [tracking EXCEPT ![Session(t)] = faces]
    /\ holder' = [holder EXCEPT ![Session(t)] = Nobody]
    /\ Return(t, last[t])
    /\ UNCHANGED <<plan, cache, results, feature, captured, calls, held>>

\* The caches are filled and the mutex is released.
Fill(t) ==
    /\ pc[t] = "fill"
    /\ LET s == Session(t) k == Len(cache[s]) + 1
       IN IF k <= Len(tracking[s])
          THEN /\ cache' = [cache EXCEPT ![s] = Append(@, TokensOf(tracking[s])[k])]
               /\ UNCHANGED <<holder, pc>>
          ELSE /\ holder' = [holder EXCEPT ![s] = Nobody]
               /\ Goto(t, "view")
               /\ UNCHANGED cache
    /\ UNCHANGED <<plan, serial, tracking, results, feature, captured, call, calls, held, last>>

-----------------------------------------------------------------------------
(* The callers, without the session's mutex. *)

\* HFExecuteFaceTrack takes the count from the tracker and borrows the caches;
\* the capture session iterates over the cache as it is now.
View(t) ==
    /\ pc[t] = "view"
    /\ LET n == Len((IF Target(t) \in Captures THEN cache ELSE tracking)[Session(t)])
       IN call' = [call EXCEPT ![t].count = n]
    /\ Goto(t, "read")
    /\ UNCHANGED <<plan, holder, serial, caches, captured, calls, held, last>>

\* What reading face k of a cache yields: a cache rewritten after the reader
\* borrowed it may have been reallocated, and any element that is not there is
\* undefined.
Reads(t, k) ==
    LET s == Session(t)
    IN (IF k \in DOMAIN cache[s] THEN {cache[s][k]} ELSE {Garbage})
         \cup IF call[t].stale THEN {Garbage} ELSE {}

\* CopyFrom, or the decoding loop of the capture session.
Read(t) ==
    /\ pc[t] = "read" /\ Len(call[t].read) < call[t].count
    /\ \E face \in Reads(t, Len(call[t].read) + 1) :
         call' = [call EXCEPT ![t].read = Append(@, face)]
    /\ UNCHANGED <<plan, holder, serial, caches, captured, pc, calls, held, last>>

\* The loans of a capture session's results end; copying or clearing the results
\* also takes the storage away.
EndLoans(c) ==
    lent' = [t \in Threads |->
               IF lent[t].capture = c THEN [lent[t] EXCEPT !.current = FALSE] ELSE lent[t]]
TakeAway(c) ==
    [t \in Threads |->
       IF lent[t].capture = c THEN [lent[t] EXCEPT !.dangling = TRUE] ELSE lent[t]]

\* Mutant: the update leaves result_cache as it is.
SelectSilently(c, faces) ==
    /\ selected' = [selected EXCEPT ![c] = faces]
    /\ EndLoans(c)
    /\ UNCHANGED <<copied, dirty>>

\* The selector accepts the faces and its results may change, or it refuses them.
Select(c, faces) ==
    \/ /\ selected' = [selected EXCEPT ![c] = faces]
       /\ dirty' = [dirty EXCEPT ![c] = TRUE]
       /\ EndLoans(c)
       /\ UNCHANGED copied
    \/ UNCHANGED captured

\* The snapshot is complete, or the selector is updated with the faces.
Deliver(t) ==
    /\ pc[t] = "read" /\ Len(call[t].read) = call[t].count
    /\ Return(t, call[t])
    /\ IF Target(t) \in Captures
       THEN Select(Target(t), call[t].read) /\ UNCHANGED held
       ELSE held' = [held EXCEPT ![t] = call[t].read] /\ UNCHANGED captured
    /\ UNCHANGED <<plan, holder, caches, calls>>

-----------------------------------------------------------------------------
(* The other calls, which are one critical section each, or none. *)

Runs(t, operation) == pc[t] = "run" /\ Operation(t) = operation

\* Mutant: the histories are found by the index alone.
TracesByIndex(s, token) == token.index \in DOMAIN tracking[s]

\* The tracked face a token describes is the one at its index, if the id agrees.
Traces(s, token) ==
    /\ token.index \in DOMAIN tracking[s]
    /\ tracking[s][token.index].id = token.id

\* FacesProcess on the faces of a snapshot; a model may fail for any of them,
\* before or after its history has been extended.  A result names its face and
\* the records it rests on.
Process(t) ==
    /\ Runs(t, "process") /\ holder[Target(t)] = Nobody
    /\ LET s == Target(t)
           faces == held[t]
       IN \E done \in 0..Len(faces), eyes \in [DOMAIN faces -> Seen] :
            LET Analysed(i) ==
                  AnalysisFaceAction(RecordActionFrame(
                      tracking[s][faces[i].index].actions, faces[i].id, eyes[i]))
                traced == {i \in 1..done : Traces(s, faces[i])}
            IN  /\ tracking' = [tracking EXCEPT ![s] =
                     [k \in DOMAIN @ |->
                        IF \E i \in traced : faces[i].index = k
                        THEN [@[k] EXCEPT !.actions =
                                Analysed(CHOOSE i \in traced : faces[i].index = k).next]
                        ELSE @[k]]]
                /\ results' = [results EXCEPT ![s] =
                     [i \in DOMAIN faces |->
                        [id |-> faces[i].id,
                         window |-> IF i \in traced THEN Analysed(i).window ELSE {}]]]
    /\ Return(t, last[t])
    /\ UNCHANGED <<plan, holder, cache, feature, captured, calls, held>>

\* HFSessionClearTrackingFace, which takes no lock.
ClearTrackingFace(t) ==
    /\ Runs(t, "clear")
    /\ tracking' = [tracking EXCEPT ![Target(t)] = <<>>]
    /\ Return(t, last[t])
    /\ UNCHANGED <<plan, holder, cache, results, feature, captured, calls, held>>

\* Mutant: a failed extraction leaves the last feature and reports success.
ExtractKeeping(t) ==
    /\ Runs(t, "extract") /\ holder[Target(t)] = Nobody
    /\ \/ feature' = [feature EXCEPT ![Target(t)] = call[t].face]
       \/ UNCHANGED feature
    /\ Overtake(t, {"take"})
    /\ Goto(t, "take")
    /\ UNCHANGED <<plan, holder, serial, tracking, cache, results, captured, calls, held, last>>

\* FaceFeatureExtract clears the cache and fills it, unless the model fails.
Extract(t) ==
    /\ Runs(t, "extract") /\ holder[Target(t)] = Nobody
    /\ \/ /\ feature' = [feature EXCEPT ![Target(t)] = call[t].face]
          /\ Goto(t, "take")
       \/ /\ feature' = [feature EXCEPT ![Target(t)] = Nobody]
          /\ Goto(t, "leave")
    /\ Overtake(t, {"take"})
    /\ UNCHANGED <<plan, holder, serial, tracking, cache, results, captured, calls, held, last>>

\* FaceFeatureExtractWithAlignmentImage clears the cache, and has no use for it:
\* its feature goes to the caller's buffer.  (Its namesake in the C API calls the
\* recognition module past the session and touches no state of it.)
ExtractAligned(t) ==
    /\ Runs(t, "align") /\ holder[Target(t)] = Nobody
    /\ feature' = [feature EXCEPT ![Target(t)] = Nobody]
    /\ Overtake(t, {"take"})
    /\ Goto(t, "leave")
    /\ UNCHANGED <<plan, holder, serial, tracking, cache, results, captured, calls, held, last>>

\* The caller copies the feature, or uses the one it was lent, with no lock held.
TakeFeature(t) ==
    /\ pc[t] = "take"
    /\ \E found \in {feature[Target(t)]} \cup IF call[t].stale THEN {Garbage} ELSE {} :
         Return(t, [call[t] EXCEPT !.read = <<found>>])
    /\ UNCHANGED <<plan, holder, caches, captured, calls, held>>

\* The extraction failed or is over, or the buffer is too small for the feature.
Leave(t) ==
    /\ pc[t] \in {"take", "leave"}
    /\ Return(t, last[t])
    /\ UNCHANGED <<plan, holder, caches, captured, calls, held>>

\* HFUpdateFaceCaptureSessionWithSnapshot.
UpdateWithSnapshot(t) ==
    /\ Runs(t, "assess") /\ serial[Target(t)] = Nobody
    /\ Select(Target(t), held[t])
    /\ Return(t, last[t])
    /\ UNCHANGED <<plan, holder, caches, calls, held>>

\* Mutant: every call copies the results anew.
AlwaysOutdated(c) == c \in Captures

\* result_cache no longer shows what the selector holds, as far as is known.
Outdated(c) == dirty[c]

\* HFGetFaceCaptureResults lends the caller what result_cache holds.
GetResults(t) ==
    /\ Runs(t, "results") /\ serial[Target(t)] = Nobody
    /\ LET c == Target(t)
       IN  /\ copied' = IF Outdated(c) THEN [copied EXCEPT ![c] = selected[c]] ELSE copied
           /\ dirty' = [dirty EXCEPT ![c] = FALSE]
           /\ lent' = [(IF Outdated(c) THEN TakeAway(c) ELSE lent) EXCEPT ![t] =
                [capture |-> c, view |-> copied'[c], current |-> TRUE, dangling |-> FALSE]]
    /\ Return(t, last[t])
    /\ UNCHANGED <<plan, holder, caches, selected, calls, held>>

\* HFFinishFaceCaptureSession keeps the results.
Finish(t) ==
    /\ Runs(t, "finish") /\ serial[Target(t)] = Nobody
    /\ dirty' = [dirty EXCEPT ![Target(t)] = TRUE]
    /\ EndLoans(Target(t))
    /\ Return(t, last[t])
    /\ UNCHANGED <<plan, holder, caches, selected, copied, calls, held>>

\* HFResetFaceCaptureSession.
Reset(t) ==
    /\ Runs(t, "reset") /\ serial[Target(t)] = Nobody
    /\ selected' = [selected EXCEPT ![Target(t)] = <<>>]
    /\ copied' = [copied EXCEPT ![Target(t)] = <<>>]
    /\ dirty' = [dirty EXCEPT ![Target(t)] = TRUE]
    /\ lent' = [u \in Threads |-> [TakeAway(Target(t))[u] EXCEPT !.current =
                                    @ /\ lent[u].capture # Target(t)]]
    /\ Return(t, last[t])
    /\ UNCHANGED <<plan, holder, caches, calls, held>>

Step(t) ==
    \/ Serialize(t) \/ Lock(t) \/ Track(t) \/ Fail(t) \/ Fill(t)
    \/ View(t) \/ Read(t) \/ Deliver(t)
    \/ Process(t) \/ ClearTrackingFace(t)
    \/ Extract(t) \/ ExtractAligned(t) \/ TakeFeature(t) \/ Leave(t)
    \/ UpdateWithSnapshot(t) \/ GetResults(t) \/ Finish(t) \/ Reset(t)

Next == \E t \in Threads : Begin(t) \/ Step(t)

Spec == Init /\ [][Next]_vars

\* A running thread goes on; with finitely many calls no lock is contended for ever.
FairSpec == Spec /\ \A t \in Threads : WF_vars(Step(t))

-----------------------------------------------------------------------------
(* Properties. *)

\* Whatever is delivered for a frame, in a snapshot or to the selector of a
\* capture session, consists of the faces of that frame: none missing, none of
\* another frame, none read from memory that is no longer theirs.
OwnFaces ==
    \A t \in Threads : last[t].frame # Nobody => last[t].read = FacesOf(last[t].frame)

\* While no thread is tracking, a session's caches show the faces its tracker
\* holds, or are empty after a failure, unless the tracker was cleared:
\* HFExecuteFaceTrack takes the number of faces from the tracker and the faces
\* from the caches.
CachesFollowTracker ==
    \A s \in Sessions :
        holder[s] = Nobody /\ tracking[s] # <<>> => cache[s] \in {TokensOf(tracking[s]), <<>>}

\* An action is reported from a full window of records of one face, none of
\* which has counted for a blink before, whatever faces of earlier frames the
\* clients have processed in between.
ActionsAreOwn ==
    \A s \in Sessions : \A i \in DOMAIN results[s] :
        LET result == results[s][i]
        IN \A r, q \in result.window : r.id = result.id /\ r.blinks = q.blinks

\* A client that asks for a face's feature gets that face's, whatever other calls
\* the session serves before the feature has been copied from its cache: one
\* thread may track while another extracts.
OwnFeatures ==
    \A t \in Threads : last[t].face # Nobody => last[t].read = <<last[t].face>>

\* "token.data remains valid until the next update, reset, finish, or release
\* operation on the capture session": until then the results lent to a thread
\* stay where they are, and are the selector's, whoever asks for them meanwhile.
LoansHold ==
    \A t \in Threads : lent[t].current =>
        /\ ~lent[t].dangling
        /\ lent[t].view = copied[lent[t].capture]
        /\ lent[t].view = selected[lent[t].capture]

\* Every call returns: the two mutexes are always taken in the same order and
\* no path leaves one locked.
EveryCallReturns == \A t \in Threads : pc[t] # "idle" ~> pc[t] = "idle"

\* What inspireface.h says of capture sessions: "different capture handles may
\* run concurrently".  The faces a selector is updated with are then its frame's.
CapturesRunConcurrently ==
    \A t \in Threads :
        last[t].target \in Captures => last[t].read = FacesOf(last[t].frame)
=============================================================================
