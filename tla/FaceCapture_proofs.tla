------------------------- MODULE FaceCapture_proofs -------------------------
(***************************************************************************)
(* Theorems about FaceCapture, for any configurations, frames and number   *)
(* of timestamps.  That results are apart in time is inductive together    *)
(* with their being no later than the last frame: a candidate is then near *)
(* to one result of its track at most, the one it may replace.  What the   *)
(* results keep of the candidates offered, and of the frames in which one  *)
(* was watched, is told by the histories of the two modules behind it.     *)
(***************************************************************************)
EXTENDS FaceCaptureHistory, FiniteSetTheorems, TLAPS

\* Results come from frames already seen.
ResultsSeen == \A r \in results : hasInput /\ r.time <= lastTime

\* The inductive invariant.
IInv == TypeOK /\ Spaced /\ ResultsSeen

\* Elements of one track are d apart.
Apart(S, d) == \A x, y \in S : x # y /\ x.track = y.track => Distance(x.time, y.time) >= d

Result == [time : Nat, track : Int, score : Int]

-----------------------------------------------------------------------------
(* AddCandidate. *)

\* A new candidate is near to one result at most: the results are apart, and
\* all of them are older.
LEMMA NearIsOne ==
    ASSUME IInv, NEW c \in Result, hasInput => c.time > lastTime,
           NEW x \in Near(c), NEW y \in Near(c)
    PROVE  x = y
<1>1. /\ x \in results /\ x \in Result /\ x.track = c.track /\ Distance(x.time, c.time) < config.interval
      /\ y \in results /\ y \in Result /\ y.track = c.track /\ Distance(y.time, c.time) < config.interval
  BY DEF Near, IInv, TypeOK, Result
<1>2. x.time < c.time /\ y.time < c.time
  BY <1>1 DEF IInv, ResultsSeen, TypeOK, Result
<1>3. config.interval \in Nat
  BY CaptureAssumption DEF IInv, TypeOK
<1>4. Distance(x.time, y.time) < config.interval
  BY <1>1, <1>2, <1>3 DEF Distance, Result
<1>5. Distance(x.time, y.time) \in Nat
  BY <1>1 DEF Distance, Result
<1> QED
  BY <1>1, <1>3, <1>4, <1>5 DEF IInv, Spaced

\* Whether the candidate is pushed, replaces a result or is dropped, the
\* results stay apart, and none is later than the candidate.
LEMMA InsertKeepsApart ==
    ASSUME IInv, NEW c \in Result, hasInput => c.time > lastTime
    PROVE  /\ Insert(c) \subseteq Result
           /\ Apart(Insert(c), config.interval)
           /\ \A r \in Insert(c) : r.time <= c.time
<1>1. results \subseteq Result /\ config.interval \in Nat
  BY CaptureAssumption DEF IInv, TypeOK, Result
<1>2. \A r \in results : r.time < c.time
  BY <1>1 DEF IInv, ResultsSeen, TypeOK, Result
<1>3. \A x, y \in Result : Distance(x.time, y.time) \in Nat /\ Distance(x.time, y.time) = Distance(y.time, x.time)
  BY DEF Distance, Result
<1>4. \A x \in results \ Near(c) : x.track = c.track => Distance(x.time, c.time) >= config.interval
  BY <1>1, <1>3 DEF Near
<1>5. Insert(c) = results \/ Insert(c) \subseteq (results \ Near(c)) \cup {c}
  <2>1. CASE Near(c) = {}
    BY <2>1 DEF Insert
  <2>2. CASE Near(c) # {}
    <3>1. PICK e \in Near(c) : Near(c) = {e}
      BY <2>2, NearIsOne
    <3>2. First(Near(c)) = e
      BY <3>1 DEF First
    <3> QED
      BY <2>2, <3>1, <3>2 DEF Insert
  <2> QED
    BY <2>1, <2>2
<1>6. CASE Insert(c) = results
  BY <1>1, <1>2, <1>6 DEF Result, Apart, IInv, Spaced
<1>7. CASE Insert(c) \subseteq (results \ Near(c)) \cup {c}
  <2>1. Apart((results \ Near(c)) \cup {c}, config.interval)
    BY <1>1, <1>3, <1>4 DEF Apart, IInv, Spaced
  <2>2. Apart(Insert(c), config.interval)
    BY <1>7, <2>1 DEF Apart
  <2> QED
    BY <1>1, <1>2, <1>7, <2>2 DEF Result
<1> QED
  BY <1>5, <1>6, <1>7

\* Cutting the vector to outputCount only drops results.
LEMMA TrimDrops ==
    ASSUME NEW S
    PROVE  Trim(S) \subseteq S
BY DEF Trim

-----------------------------------------------------------------------------
(* The steps. *)

\* A selector that has been reset satisfies the invariant.
LEMMA ResetStep ==
    ASSUME ResetState, config' \in Configs, status' \in {"ok", "invalid_config", "feature_off"}
    PROVE  IInv'
<1>1. TypeOK'
  <2>1. /\ activeTrack' \in Int /\ stableSince' \in Nat /\ lastSeen' \in Nat /\ lastPlace' \in Int
        /\ lastTime' \in Nat /\ collectStart' \in Nat
    BY DEF ResetState, ResetTrackState, NoTrack, NoPlace
  <2>2. lastUpdate'.state = "IDLE"
    BY DEF ResetState, Report
  <2>3. hasInput' \in BOOLEAN /\ finished' \in BOOLEAN /\ collecting' \in BOOLEAN /\ results' = {}
    BY DEF ResetState
  <2> QED
    BY <2>1, <2>2, <2>3 DEF TypeOK
<1>2. Spaced' /\ ResultsSeen'
  BY DEF Spaced, ResultsSeen, ResetState
<1> QED
  BY <1>1, <1>2 DEF IInv

\* A frame in which no face is evaluated keeps the results and moves time on.
LEMMA NoFaceStep ==
    ASSUME IInv, NEW time \in Nat, hasInput => time > lastTime,
           \/ UpdateNoFace(time)
           \/ \E faces \in Frames(config) : UpdateEmptyRect(time, faces)
    PROVE  IInv'
<1>1. /\ hasInput' = TRUE /\ lastTime' = time
      /\ UNCHANGED <<config, status, finished, collecting, collectStart, results>>
      /\ UNCHANGED trackVars \/ ResetTrackState
      /\ lastUpdate'.state \in {"IDLE", "TRACK_LOST"}
  BY DEF UpdateNoFace, UpdateEmptyRect, RecordInput, Report
<1>2. TypeOK'
  BY <1>1 DEF IInv, TypeOK, trackVars, ResetTrackState, NoTrack, NoPlace
<1>3. Spaced' /\ ResultsSeen'
  BY <1>1 DEF IInv, TypeOK, Spaced, ResultsSeen
<1> QED
  BY <1>2, <1>3 DEF IInv

\* A frame whose face is evaluated: accepted or not, the stability clock is a
\* time, and the results stay apart and no later than this frame.
LEMMA FaceStep ==
    ASSUME IInv, NEW time \in Nat, hasInput => time > lastTime,
           NEW faces \in Frames(config), NEW face \in faces, UpdateFace(face, faces, time)
    PROVE  IInv'
<1>1. face.track \in Int /\ face.place \in Int /\ face.score \in Int
  BY CaptureAssumption DEF IInv, TypeOK
<1> DEFINE c == Candidate(face, time)
<1>2. c \in Result /\ c.time = time
  BY <1>1 DEF Candidate, Result
<1>3. hasInput' = TRUE /\ lastTime' = time /\ UNCHANGED <<config, status>>
  BY DEF UpdateFace, RecordInput
<1>4. /\ activeTrack' \in Int /\ stableSince' \in Nat /\ lastSeen' \in Nat /\ lastPlace' \in Int
  BY <1>1 DEF UpdateFace, UpdateStability, StableSince, IInv, TypeOK, NoPlace
<1>5. AcceptFace(face, time) \/ \E R : RejectFace(R, time)
  BY DEF UpdateFace
<1>6. /\ collecting' \in BOOLEAN /\ collectStart' \in Nat /\ finished' \in BOOLEAN
      /\ lastUpdate'.state \in {"STABILIZING", "COLLECTING", "READY", "FINISHED"}
      /\ results' = results \/ results' \subseteq Insert(c)
  <2>1. CASE AcceptFace(face, time)
    BY <2>1, TrimDrops DEF AcceptFace, Report, IInv, TypeOK
  <2>2. CASE \E R : RejectFace(R, time)
    BY <2>2 DEF RejectFace, Report, IInv, TypeOK
  <2> QED
    BY <1>5, <2>1, <2>2
<1>7. /\ Insert(c) \subseteq Result /\ Apart(Insert(c), config.interval)
      /\ \A r \in Insert(c) : r.time <= time
  BY <1>2, InsertKeepsApart
<1>8. /\ results \subseteq Result /\ Apart(results, config.interval)
      /\ \A r \in results : r.time <= time
  BY DEF IInv, TypeOK, Spaced, Apart, ResultsSeen, Result
<1>9. results' \subseteq Result /\ Apart(results', config.interval) /\ \A r \in results' : r.time <= time
  BY <1>6, <1>7, <1>8 DEF Apart
<1>10. TypeOK'
  BY <1>3, <1>4, <1>6, <1>9 DEF IInv, TypeOK, Result
<1> QED
  BY <1>3, <1>9, <1>10 DEF IInv, Spaced, ResultsSeen, Apart

\* Every step of the selector preserves the invariant.
LEMMA NextStep == IInv /\ [Next]_vars => IInv'
<1> SUFFICES ASSUME IInv, [Next]_vars PROVE IInv'
  OBVIOUS
<1>1. CASE UNCHANGED vars
  BY <1>1 DEF vars, IInv, TypeOK, Spaced, ResultsSeen
<1>2. ASSUME NEW c \in Configs, NEW enabled \in Features, Configure(c, enabled) PROVE IInv'
  <2>1. ResetState /\ config' \in Configs /\ status' \in {"ok", "invalid_config", "feature_off"}
    BY <1>2 DEF Configure, IInv, TypeOK
  <2> QED
    BY <2>1, ResetStep
<1>3. CASE Reset
  BY <1>3, ResetStep DEF Reset, IInv, TypeOK
<1>4. CASE Finish
  BY <1>4 DEF Finish, trackVars, IInv, TypeOK, Spaced, ResultsSeen
<1>5. ASSUME NEW faces \in Frames(config), NEW time \in 1..MaxTime, NEW newer \in BOOLEAN, NEW image \in BOOLEAN,
             NEW seen \in Selected(faces), Update(faces, seen, time, newer, image)
      PROVE  IInv'
  <2>1. CASE ~Accepts(time, newer, image)
    BY <1>1, <1>5, <2>1 DEF Update
  <2>2. CASE Accepts(time, newer, image)
    <3>1. time \in Nat /\ (hasInput => time > lastTime)
      BY <2>2, CaptureAssumption DEF Accepts
    <3>2. \/ UpdateNoFace(time)
          \/ UpdateEmptyRect(time, faces)
          \/ \E face \in faces : UpdateFace(face, faces, time)
      BY <1>5, <2>2 DEF Update, Selected, Largest
    <3> QED
      BY <3>1, <3>2, NoFaceStep, FaceStep
  <2> QED
    BY <2>1, <2>2
<1> QED
  BY <1>1, <1>2, <1>3, <1>4, <1>5 DEF Next

\* The invariant holds initially.
LEMMA InitStep == Init => IInv
<1>1. Init => TypeOK
  <2> SUFFICES ASSUME Init PROVE TypeOK
    OBVIOUS
  <2>1. /\ activeTrack \in Int /\ stableSince \in Nat /\ lastSeen \in Nat /\ lastPlace \in Int
        /\ lastTime \in Nat /\ collectStart \in Nat
    BY DEF Init, NoTrack, NoPlace
  <2>2. lastUpdate.state = "IDLE" /\ status = "invalid_config" /\ config \in Configs
    BY DEF Init, Report
  <2>3. hasInput \in BOOLEAN /\ finished \in BOOLEAN /\ collecting \in BOOLEAN /\ results = {}
    BY DEF Init
  <2> QED
    BY <2>1, <2>2, <2>3 DEF TypeOK
<1>2. Init => Spaced /\ ResultsSeen
  BY DEF Init, Spaced, ResultsSeen
<1> QED
  BY <1>1, <1>2 DEF IInv

-----------------------------------------------------------------------------
\* The inductive invariant of the selector.
THEOREM Invariance == Spec => []IInv
BY InitStep, NextStep, PTL DEF Spec

\* The selector's fields keep their types: no time is ever negative, which in
\* capture.cpp would be a wrapped unsigned difference.
THEOREM TypeCorrect == Spec => []TypeOK
<1>1. IInv => TypeOK
  BY DEF IInv
<1> QED
  BY <1>1, Invariance, PTL

\* Two results of one track are never closer than minCandidateIntervalMs,
\* although AddCandidate compares a candidate with the first near result only.
THEOREM ResultsSpaced == Spec => []Spaced
<1>1. IInv => Spaced
  BY DEF IInv
<1> QED
  BY <1>1, Invariance, PTL

\* A finished selector keeps its results and its verdict until it is reset.
THEOREM Frozen == Spec => FinishedFrozen
<1> DEFINE A == finished => \/ finished' /\ results' = results /\ lastUpdate' = lastUpdate
                            \/ ~finished' /\ results' = {} /\ ~hasInput'
<1>1. [Next]_vars => [A]_vars
  <2> SUFFICES ASSUME Next, finished PROVE A
    OBVIOUS
  <2>1. CASE Finish
    BY <2>1 DEF Finish
  <2>2. CASE ResetState
    BY <2>2 DEF ResetState
  <2>3. ASSUME NEW faces \in Frames(config), NEW time \in 1..MaxTime, NEW newer \in BOOLEAN, NEW image \in BOOLEAN,
               NEW seen \in Selected(faces), Update(faces, seen, time, newer, image)
        PROVE  A
    BY <2>3 DEF Update, Accepts, vars
  <2> QED
    BY <2>1, <2>2, <2>3 DEF Next, Reset, Configure
<1> QED
  BY <1>1, PTL DEF Spec, FinishedFrozen

-----------------------------------------------------------------------------
(* The bound on the results. *)

\* No two sightings are of one time.
Distinct(S) == \A x, y \in S : x.time = y.time => x = y

\* The invariant that gives Bounded: the results are of different frames, so
\* the order of the vector is total and has a last element to cut.
BInv ==
    /\ IInv
    /\ Distinct(results)
    /\ IsFiniteSet(results) /\ Cardinality(results) <= config.outputCount
    /\ lastUpdate.state = "READY" => Cardinality(results) = config.outputCount

\* A finite set of sightings of different frames has a worst one.
LEMMA WorstExists ==
    ASSUME NEW S, S \subseteq Result, Distinct(S), IsFiniteSet(S), S # {}
    PROVE  \E e \in S : \A x \in S \ {e} : Better(x, e)
<1> DEFINE Worse(e) == {x \in S : Better(e, x)}
           T == {Worse(e) : e \in S}
           R == StrictSubsetOrdering(S)
<1>1. T \subseteq FiniteSubsetsOf(S) /\ T # {}
  <2>1. \A e \in S : Worse(e) \in SUBSET S
    OBVIOUS
  <2>2. \A e \in S : IsFiniteSet(Worse(e))
    <3> HIDE DEF Worse
    <3> QED
      BY <2>1, FS_Subset
  <2> QED
    BY <2>1, <2>2 DEF FiniteSubsetsOf
<1>2. IsWellFoundedOn(R, FiniteSubsetsOf(S))
  BY FS_StrictSubsetOrderingWellFounded
<1>3. PICK M \in T : \A N \in T : ~ (<<N, M>> \in R)
  <2> HIDE DEF T, R
  <2> QED
    BY <1>1, <1>2, WFMin
<1>4. PICK e \in S : M = Worse(e)
  BY <1>3
<1>5. Worse(e) = {}
  <2> SUFFICES ASSUME NEW x \in Worse(e) PROVE FALSE
    OBVIOUS
  <2>1. Worse(x) \subseteq Worse(e)
    BY DEF Better, Result
  <2>2. x \notin Worse(x)
    BY DEF Better, Result
  <2>3. <<Worse(x), Worse(e)>> \in R
    BY <2>1, <2>2 DEF StrictSubsetOrdering
  <2> QED
    BY <1>3, <1>4, <2>3
<1>6. \A x \in S \ {e} : x.score \in Int /\ x.time \in Nat /\ e.score \in Int /\ e.time \in Nat
                           /\ x.time # e.time
  BY DEF Distinct, Result
<1> QED
  BY <1>5, <1>6 DEF Better

\* AddCandidate adds one sighting at most, of a frame later than all.
LEMMA InsertAddsOne ==
    ASSUME BInv, NEW c \in Result, hasInput => c.time > lastTime
    PROVE  /\ Distinct(Insert(c)) /\ IsFiniteSet(Insert(c))
           /\ Cardinality(Insert(c)) <= config.outputCount + 1
<1>1. results \subseteq Result /\ config.outputCount \in Nat
  BY CaptureAssumption DEF BInv, IInv, TypeOK, Result
<1>2. \A r \in results : r.time < c.time
  BY <1>1 DEF BInv, IInv, ResultsSeen, TypeOK, Result
<1>3. Insert(c) \subseteq results \cup {c}
  BY DEF Insert
<1>4. IsFiniteSet(results \cup {c}) /\ Cardinality(results \cup {c}) <= config.outputCount + 1
  <2>1. Cardinality(results) \in Nat /\ Cardinality(results) <= config.outputCount
    BY FS_CardinalityType DEF BInv
  <2>2. /\ IsFiniteSet(results \cup {c})
        /\ Cardinality(results \cup {c}) \in {Cardinality(results), Cardinality(results) + 1}
    BY FS_AddElement DEF BInv
  <2> QED
    BY <1>1, <2>1, <2>2
<1>5. IsFiniteSet(Insert(c)) /\ Cardinality(Insert(c)) <= config.outputCount + 1
  <2>1. IsFiniteSet(Insert(c)) /\ Cardinality(Insert(c)) <= Cardinality(results \cup {c})
    BY <1>3, <1>4, FS_Subset
  <2>2. Cardinality(Insert(c)) \in Nat /\ Cardinality(results \cup {c}) \in Nat
    BY <1>4, <2>1, FS_CardinalityType
  <2> QED
    BY <1>1, <1>4, <2>1, <2>2
<1>6. Distinct(Insert(c))
  BY <1>1, <1>2, <1>3 DEF Distinct, BInv, Result
<1> QED
  BY <1>5, <1>6

\* Cutting the vector leaves outputCount results at most.
LEMMA TrimBounds ==
    ASSUME NEW S, S \subseteq Result, Distinct(S), IsFiniteSet(S), config.outputCount \in Nat,
           Cardinality(S) <= config.outputCount + 1
    PROVE  /\ Distinct(Trim(S)) /\ IsFiniteSet(Trim(S))
           /\ Cardinality(Trim(S)) <= config.outputCount
<1>0. Cardinality(S) \in Nat
  BY FS_CardinalityType
<1>1. CASE Cardinality(S) > config.outputCount
  <2>1. S # {}
    BY <1>1, FS_EmptySet
  <2>2. Last(S) \in S
    BY <2>1, WorstExists DEF Last
  <2>3. Trim(S) = S \ {Last(S)}
    BY <1>1 DEF Trim
  <2>4. IsFiniteSet(S \ {Last(S)}) /\ Cardinality(S \ {Last(S)}) = Cardinality(S) - 1
    BY <2>2, FS_RemoveElement
  <2> QED
    BY <1>0, <2>3, <2>4 DEF Distinct
<1>2. CASE ~(Cardinality(S) > config.outputCount)
  BY <1>0, <1>2 DEF Trim
<1> QED
  BY <1>1, <1>2

\* Every step keeps the results bounded, and complete when the client is told so.
LEMMA BoundStep ==
    ASSUME BInv, [Next]_vars
    PROVE  BInv'
<1>1. IInv'
  BY NextStep DEF BInv
<1>2. CASE UNCHANGED vars
  BY <1>1, <1>2 DEF vars, BInv, Distinct
<1>3. CASE ResetState /\ config' \in Configs
  <2>1. results' = {} /\ lastUpdate'.state = "IDLE" /\ config'.outputCount \in Nat
    BY <1>3, CaptureAssumption DEF ResetState, Report
  <2>2. IsFiniteSet(results') /\ Cardinality(results') = 0
    BY <2>1, FS_EmptySet
  <2> QED
    BY <1>1, <2>1, <2>2 DEF BInv, Distinct
<1>4. CASE Finish
  BY <1>1, <1>4 DEF Finish, BInv, Distinct
<1>5. ASSUME NEW faces \in Frames(config), NEW time \in 1..MaxTime, NEW newer \in BOOLEAN, NEW image \in BOOLEAN,
             Accepts(time, newer, image),
             NEW seen \in Selected(faces), Update(faces, seen, time, newer, image)
      PROVE  BInv'
  <2>0. time \in Nat /\ (hasInput => time > lastTime)
    BY <1>5, CaptureAssumption DEF Accepts
  <2>1. CASE UNCHANGED <<config, results>> /\ lastUpdate'.state # "READY"
    BY <1>1, <2>1 DEF BInv, Distinct
  <2>2. ASSUME NEW face \in faces, AcceptFace(face, time), UNCHANGED config
        PROVE  BInv'
    <3> DEFINE c == Candidate(face, time)
    <3>1. c \in Result /\ (hasInput => c.time > lastTime)
      BY <2>0, CaptureAssumption DEF Candidate, Result, BInv, IInv, TypeOK
    <3>2. /\ Distinct(Insert(c)) /\ IsFiniteSet(Insert(c)) /\ Insert(c) \subseteq Result
          /\ Cardinality(Insert(c)) <= config.outputCount + 1
      BY <3>1, InsertAddsOne, InsertKeepsApart DEF BInv
    <3>3. config.outputCount \in Nat
      BY CaptureAssumption DEF BInv, IInv, TypeOK
    <3>4. results' = Trim(Insert(c))
      BY <2>2 DEF AcceptFace
    <3>5. Distinct(results') /\ IsFiniteSet(results') /\ Cardinality(results') <= config.outputCount
      BY <3>2, <3>3, <3>4, TrimBounds
    <3>6. lastUpdate'.state = "READY" => Cardinality(results') >= config.outputCount
      BY <2>2 DEF AcceptFace, Ready, Report
    <3>7. Cardinality(results') \in Nat
      BY <3>5, FS_CardinalityType
    <3> QED
      BY <1>1, <2>2, <3>3, <3>5, <3>6, <3>7 DEF BInv, Distinct
  <2>3. \/ UpdateNoFace(time) \/ UpdateEmptyRect(time, faces)
        \/ \E face \in faces : UpdateFace(face, faces, time)
    BY <1>5 DEF Update, Selected, Largest
  <2>4. CASE UpdateNoFace(time) \/ UpdateEmptyRect(time, faces)
    BY <2>1, <2>4 DEF UpdateNoFace, UpdateEmptyRect, Report
  <2>5. ASSUME NEW face \in faces, UpdateFace(face, faces, time)
        PROVE  BInv'
    BY <2>1, <2>2, <2>5 DEF UpdateFace, RejectFace, Report
  <2> QED
    BY <2>3, <2>4, <2>5
<1>6. ASSUME NEW faces \in Frames(config), NEW time \in 1..MaxTime, NEW newer \in BOOLEAN, NEW image \in BOOLEAN,
             ~Accepts(time, newer, image),
             NEW seen \in Selected(faces), Update(faces, seen, time, newer, image)
      PROVE  BInv'
  BY <1>2, <1>6 DEF Update
<1>7. ASSUME NEW c \in Configs, NEW enabled \in Features, Configure(c, enabled)
      PROVE  BInv'
  BY <1>3, <1>7 DEF Configure, BInv, IInv, TypeOK
<1>8. CASE Reset
  BY <1>3, <1>8 DEF Reset, BInv, IInv, TypeOK
<1> QED
  BY <1>2, <1>4, <1>5, <1>6, <1>7, <1>8 DEF Next

\* The bound holds initially.
LEMMA InitBound == Init => BInv
<1> SUFFICES ASSUME Init PROVE BInv
  OBVIOUS
<1>1. results = {} /\ lastUpdate.state = "IDLE" /\ config.outputCount \in Nat
  BY CaptureAssumption DEF Init, Report
<1>2. IsFiniteSet(results) /\ Cardinality(results) = 0
  BY <1>1, FS_EmptySet
<1> QED
  BY <1>1, <1>2, InitStep DEF BInv, Distinct

\* The invariant behind the bound on the results.
THEOREM BoundInvariance == Spec => []BInv
BY InitBound, BoundStep, PTL DEF Spec

\* The selector never keeps more than outputCount results, has exactly that many
\* whenever it reports READY, and none of a frame it has not seen.
THEOREM ResultsBounded == Spec => []Bounded
<1>1. BInv => Bounded
  BY DEF BInv, IInv, ResultsSeen, Bounded
<1> QED
  BY <1>1, BoundInvariance, PTL

-----------------------------------------------------------------------------
(* The results get no worse. *)

\* AddCandidate drops the candidate for a result of its track that is as good,
\* pushes it, or puts it in the place of a worse result of its track.
LEMMA InsertCases ==
    ASSUME BInv, NEW c \in Result, hasInput => c.time > lastTime
    PROVE  /\ c \notin results
           /\ \/ Insert(c) = results /\ \E e \in results : e.track = c.track /\ e.score >= c.score
              \/ Insert(c) = results \cup {c}
              \/ \E e \in results : /\ e.track = c.track /\ c.score > e.score
                                    /\ Insert(c) = (results \ {e}) \cup {c}
<1>1. results \subseteq Result /\ \A r \in results : r.time < c.time
  BY DEF BInv, IInv, ResultsSeen, TypeOK, Result
<1>2. c \notin results
  BY <1>1 DEF Result
<1>3. CASE Near(c) = {}
  BY <1>2, <1>3 DEF Insert
<1>4. CASE Near(c) # {}
  <2>1. PICK e \in Near(c) : Near(c) = {e}
    BY <1>4, NearIsOne DEF BInv
  <2>2. First(Near(c)) = e
    BY <2>1 DEF First
  <2>3. e \in results /\ e.track = c.track /\ e.score \in Int /\ c.score \in Int
    BY <1>1 DEF Near, Result
  <2>4. CASE c.score > e.score
    BY <1>2, <1>4, <2>2, <2>3, <2>4 DEF Insert
  <2>5. CASE ~(c.score > e.score)
    <3>1. e.score >= c.score
      BY <2>3, <2>5
    <3> QED
      BY <1>2, <1>4, <2>2, <2>3, <2>5, <3>1 DEF Insert
  <2> QED
    BY <2>4, <2>5
<1> QED
  BY <1>3, <1>4

\* The cut drops nothing, or one result that no other is worse than, and then
\* the results are full.
LEMMA TrimCases ==
    ASSUME NEW S, S \subseteq Result, Distinct(S), IsFiniteSet(S), config.outputCount \in Nat,
           Cardinality(S) <= config.outputCount + 1
    PROVE  \/ Trim(S) = S /\ Cardinality(S) <= config.outputCount
           \/ \E l \in S : /\ Trim(S) = S \ {l}
                           /\ Cardinality(S) = config.outputCount + 1
                           /\ Cardinality(Trim(S)) = config.outputCount
                           /\ \A x \in S : x.score >= l.score
<1>0. Cardinality(S) \in Nat
  BY FS_CardinalityType
<1>1. CASE Cardinality(S) > config.outputCount
  <2>1. S # {}
    BY <1>1, FS_EmptySet
  <2> DEFINE l == Last(S)
  <2>2. l \in S /\ \A x \in S \ {l} : Better(x, l)
    BY <2>1, WorstExists DEF Last
  <2>3. Trim(S) = S \ {l}
    BY <1>1 DEF Trim
  <2> HIDE DEF l
  <2>4. Cardinality(S \ {l}) = Cardinality(S) - 1
    BY <2>2, FS_RemoveElement
  <2>5. \A x \in S : x.score >= l.score
    BY <2>2 DEF Better, Result
  <2> QED
    BY <1>0, <1>1, <2>2, <2>3, <2>4, <2>5
<1>2. CASE ~(Cardinality(S) > config.outputCount)
  BY <1>0, <1>2 DEF Trim
<1> QED
  BY <1>1, <1>2

\* AddCandidate leaves as many results of any score or more as there were.
LEMMA CandidateNoWorse ==
    ASSUME BInv, NEW c \in Result, hasInput => c.time > lastTime, NEW v \in Int
    PROVE  AtLeast(Trim(Insert(c)), v) >= AtLeast(results, v)
<1> DEFINE Of(S) == {r \in S : r.score >= v}
           S == Insert(c)
<1>1. /\ S \subseteq Result /\ Distinct(S) /\ IsFiniteSet(S)
      /\ Cardinality(S) <= config.outputCount + 1
  BY InsertAddsOne, InsertKeepsApart DEF BInv
<1>2. results \subseteq Result /\ IsFiniteSet(results) /\ config.outputCount \in Nat
  BY CaptureAssumption DEF BInv, IInv, TypeOK, Result
<1>3. \A T : IsFiniteSet(T) => /\ IsFiniteSet(Of(T)) /\ Cardinality(Of(T)) \in Nat
                               /\ Cardinality(T) \in Nat /\ Cardinality(Of(T)) <= Cardinality(T)
  <2> SUFFICES ASSUME NEW T, IsFiniteSet(T)
               PROVE  /\ IsFiniteSet(Of(T)) /\ Cardinality(Of(T)) \in Nat
                      /\ Cardinality(T) \in Nat /\ Cardinality(Of(T)) <= Cardinality(T)
    OBVIOUS
  <2>1. Of(T) \in SUBSET T
    OBVIOUS
  <2> HIDE DEF Of
  <2> QED
    BY <2>1, FS_Subset, FS_CardinalityType
<1>4. Cardinality(Of(S)) >= Cardinality(Of(results))
  <2>1. CASE results \subseteq S
    <3>1. Of(results) \in SUBSET Of(S) /\ IsFiniteSet(Of(S))
      BY <1>1, <1>3, <2>1
    <3>2. Cardinality(Of(results)) <= Cardinality(Of(S))
      <4> HIDE DEF Of
      <4> QED
        BY <3>1, FS_Subset
    <3> QED
      BY <1>1, <1>2, <1>3, <3>2
  <2>2. ASSUME NEW e \in results, c.score > e.score, S = (results \ {e}) \cup {c}, c \notin results
        PROVE  Cardinality(Of(S)) >= Cardinality(Of(results))
    <3>0. e.score \in Int /\ c.score \in Int
      BY <1>2 DEF Result
    <3>1. CASE e.score >= v
      <4>1. Of(S) = (Of(results) \ {e}) \cup {c} /\ e \in Of(results) /\ c \notin Of(results) \ {e}
        BY <2>2, <3>0, <3>1
      <4>2. IsFiniteSet(Of(results)) /\ Cardinality(Of(results)) \in Nat
        BY <1>2, <1>3
      <4> HIDE DEF Of
      <4>3. IsFiniteSet(Of(results) \ {e}) /\ Cardinality(Of(results) \ {e}) = Cardinality(Of(results)) - 1
        BY <4>1, <4>2, FS_RemoveElement
      <4>4. Cardinality((Of(results) \ {e}) \cup {c}) = Cardinality(Of(results) \ {e}) + 1
        BY <4>1, <4>3, FS_AddElement
      <4> QED
        BY <4>1, <4>2, <4>3, <4>4
    <3>2. CASE ~(e.score >= v)
      <4>1. Of(results) \in SUBSET Of(S) /\ IsFiniteSet(Of(S))
        BY <1>1, <1>3, <2>2, <3>2
      <4>2. Cardinality(Of(results)) <= Cardinality(Of(S))
        <5> HIDE DEF Of
        <5> QED
          BY <4>1, FS_Subset
      <4> QED
        BY <1>1, <1>2, <1>3, <4>2
    <3> QED
      BY <3>1, <3>2
  <2> QED
    BY <2>1, <2>2, InsertCases
<1>5. Cardinality(Of(Trim(S))) >= Cardinality(Of(results))
  <2>1. CASE Trim(S) = S
    BY <1>4, <2>1
  <2>2. ASSUME NEW l \in S, Trim(S) = S \ {l}, Cardinality(Trim(S)) = config.outputCount,
               \A x \in S : x.score >= l.score
        PROVE  Cardinality(Of(Trim(S))) >= Cardinality(Of(results))
    <3>0. l.score \in Int /\ \A x \in S : x.score \in Int
      BY <1>1 DEF Result
    <3>1. CASE l.score >= v
      <4>1. Of(Trim(S)) = Trim(S)
        BY <2>2, <3>0, <3>1
      <4>2. Cardinality(Of(results)) <= Cardinality(results) /\ Cardinality(results) <= config.outputCount
        BY <1>2, <1>3 DEF BInv
      <4>3. Cardinality(Of(results)) \in Nat /\ Cardinality(results) \in Nat
        BY <1>2, <1>3
      <4> QED
        BY <1>2, <2>2, <4>1, <4>2, <4>3
    <3>2. CASE ~(l.score >= v)
      <4>1. Of(Trim(S)) = Of(S)
        BY <2>2, <3>2
      <4> QED
        BY <1>4, <4>1
    <3> QED
      BY <3>1, <3>2
  <2> QED
    BY <1>1, <1>2, <2>1, <2>2, TrimCases
<1> QED
  BY <1>5 DEF AtLeast

\* A step keeps the results, empties them, or gives them one candidate.
LEMMA ResultsSteps ==
    ASSUME IInv, [Next]_vars
    PROVE  \/ UNCHANGED results
           \/ results' = {}
           \/ \E c \in Result : /\ hasInput => c.time > lastTime
                                /\ results' = Trim(Insert(c))
<1>1. CASE UNCHANGED vars
  BY <1>1 DEF vars
<1>2. CASE Reset \/ \E c \in Configs, enabled \in Features : Configure(c, enabled)
  BY <1>2 DEF Reset, Configure, ResetState
<1>3. CASE Finish
  BY <1>3 DEF Finish
<1>4. ASSUME NEW faces \in Frames(config), NEW time \in 1..MaxTime, NEW newer \in BOOLEAN, NEW image \in BOOLEAN,
             NEW seen \in Selected(faces), Update(faces, seen, time, newer, image)
      PROVE  \/ UNCHANGED results
             \/ \E c \in Result : /\ hasInput => c.time > lastTime
                                  /\ results' = Trim(Insert(c))
  <2>1. CASE ~Accepts(time, newer, image)
    BY <1>1, <1>4, <2>1 DEF Update, vars
  <2>2. CASE Accepts(time, newer, image)
    <3>0. time \in Nat /\ (hasInput => time > lastTime)
      BY <2>2, CaptureAssumption DEF Accepts
    <3>1. UNCHANGED results \/ \E face \in faces : AcceptFace(face, time)
      BY <1>4, <2>2 DEF Update, Selected, Largest, UpdateNoFace, UpdateEmptyRect, UpdateFace, RejectFace
    <3>2. ASSUME NEW face \in faces, AcceptFace(face, time)
          PROVE  \E c \in Result : /\ hasInput => c.time > lastTime
                                   /\ results' = Trim(Insert(c))
      <4>1. Candidate(face, time) \in Result /\ Candidate(face, time).time = time
        BY <3>0, CaptureAssumption DEF Candidate, Result, IInv, TypeOK
      <4> QED
        BY <3>0, <3>2, <4>1 DEF AcceptFace
    <3> QED
      BY <3>1, <3>2
  <2> QED
    BY <2>1, <2>2
<1> QED
  BY <1>1, <1>2, <1>3, <1>4 DEF Next

\* Except by a reset, the result set never gets worse: for every score, there
\* stay as many results that reach it.
THEOREM NeverWorse == Spec => ResultsNeverWorsen
<1> DEFINE A == \A v \in {r.score : r \in results} :
                  results' # {} => AtLeast(results', v) >= AtLeast(results, v)
<1>1. BInv /\ [Next]_vars => [A]_vars
  <2> SUFFICES ASSUME BInv, [Next]_vars, NEW v \in {r.score : r \in results}, results' # {}
               PROVE  AtLeast(results', v) >= AtLeast(results, v)
    OBVIOUS
  <2>1. v \in Int
    BY DEF BInv, IInv, TypeOK
  <2>2. AtLeast(results, v) \in Nat
    <3>1. {r \in results : r.score >= v} \in SUBSET results
      OBVIOUS
    <3> QED
      BY <3>1, FS_Subset, FS_CardinalityType DEF AtLeast, BInv
  <2>3. CASE UNCHANGED results
    BY <2>2, <2>3 DEF AtLeast
  <2> QED
    BY <2>1, <2>3, ResultsSteps, CandidateNoWorse DEF BInv
<1> QED
  BY <1>1, BoundInvariance, PTL DEF Spec, ResultsNeverWorsen

-----------------------------------------------------------------------------
(* The best sightings are kept: FaceCaptureRanking. *)

RankInv == BInv /\ accepted \subseteq Result /\ BestKept

\* The results S hold a sighting of c's track that is as good.
Represented(c, S) == \E r \in S : r.track = c.track /\ r.score >= c.score

\* The results S are full of sightings as good as c.
Outdone(c, S) == Cardinality(S) = config.outputCount /\ \A r \in S : r.score >= c.score

\* A history variable hides no behaviour and adds none.
LEMMA RankingStep == [NextR]_<<vars, accepted>> => [Next]_vars
BY DEF NextR, UpdateR, Next

\* The selector with the history of its candidates is the selector.
THEOREM RankingRefines == SpecR => Spec
BY RankingStep, PTL DEF SpecR, InitR, Spec

\* A step leaves results and history alone, starts a new history, or adds the
\* one candidate that AddCandidate is given.
LEMMA RankSteps ==
    ASSUME IInv, [NextR]_<<vars, accepted>>
    PROVE  \/ UNCHANGED <<config, results, accepted>>
           \/ accepted' = {}
           \/ \E c \in Result : /\ hasInput => c.time > lastTime
                                /\ results' = Trim(Insert(c))
                                /\ accepted' = accepted \cup {c}
                                /\ UNCHANGED config
<1>1. CASE UNCHANGED <<vars, accepted>>
  BY <1>1 DEF vars
<1>2. CASE Finish /\ UNCHANGED accepted
  BY <1>2 DEF Finish
<1>3. ASSUME NEW faces \in Frames(config), NEW time \in 1..MaxTime, NEW newer \in BOOLEAN, NEW image \in BOOLEAN,
             NEW seen \in Selected(faces), UpdateR(faces, seen, time, newer, image)
      PROVE  \/ UNCHANGED <<config, results, accepted>>
             \/ \E c \in Result : /\ hasInput => c.time > lastTime
                                  /\ results' = Trim(Insert(c))
                                  /\ accepted' = accepted \cup {c}
                                  /\ UNCHANGED config
  <2>1. CASE ~Accepts(time, newer, image)
    BY <1>3, <2>1 DEF UpdateR, Update, vars
  <2>2. CASE Accepts(time, newer, image)
    <3>0. time \in Nat /\ (hasInput => time > lastTime)
      BY <2>2, CaptureAssumption DEF Accepts
    <3>1. accepted' = IF lastUpdate'.rejects = {} THEN accepted \cup {Candidate(f, time) : f \in seen} ELSE accepted
      BY <1>3, <2>2 DEF UpdateR
    <3>2. CASE UpdateNoFace(time) \/ UpdateEmptyRect(time, faces)
      <4>1. lastUpdate'.rejects # {} /\ UNCHANGED <<config, results>>
        BY <3>2 DEF UpdateNoFace, UpdateEmptyRect, Report
      <4> QED
        BY <3>1, <4>1
    <3>3. ASSUME NEW face \in seen, UpdateFace(face, faces, time)
          PROVE  \/ UNCHANGED <<config, results, accepted>>
                 \/ \E c \in Result : /\ hasInput => c.time > lastTime
                                      /\ results' = Trim(Insert(c))
                                      /\ accepted' = accepted \cup {c}
                                      /\ UNCHANGED config
      <4>1. face \in faces /\ seen = {face}
        BY <3>3 DEF Selected, Largest
      <4>2. CASE Rejects(face, faces, time) # {}
        <5>1. lastUpdate'.rejects # {} /\ UNCHANGED <<config, results>>
          BY <3>3, <4>2 DEF UpdateFace, RejectFace, Report
        <5> QED
          BY <3>1, <5>1
      <4>3. CASE Rejects(face, faces, time) = {}
        <5> DEFINE c == Candidate(face, time)
        <5>1. AcceptFace(face, time) /\ UNCHANGED config
          BY <3>3, <4>3 DEF UpdateFace
        <5>2. lastUpdate'.rejects = {} /\ results' = Trim(Insert(c))
          BY <5>1 DEF AcceptFace, Report
        <5>3. c \in Result /\ c.time = time
          BY <3>0, <4>1, CaptureAssumption DEF Candidate, Result, IInv, TypeOK
        <5>4. accepted' = accepted \cup {c}
          BY <3>1, <4>1, <5>2
        <5> QED
          BY <3>0, <5>1, <5>2, <5>3, <5>4
      <4> QED
        BY <4>2, <4>3
    <3> QED
      BY <1>3, <2>2, <3>2, <3>3 DEF UpdateR, Update
  <2> QED
    BY <2>1, <2>2
<1> QED
  BY <1>1, <1>2, <1>3 DEF NextR

\* The cut drops a sighting only for others at least as good.
LEMMA TrimRepresents ==
    ASSUME NEW S, S \subseteq Result, Distinct(S), IsFiniteSet(S), config.outputCount \in Nat,
           Cardinality(S) <= config.outputCount + 1, NEW c \in Result, Represented(c, S)
    PROVE  Represented(c, Trim(S)) \/ Outdone(c, Trim(S))
<1>1. PICK r \in S : r.track = c.track /\ r.score >= c.score
  BY DEF Represented
<1>2. CASE Trim(S) = S
  BY <1>2
<1>3. ASSUME NEW l \in S, Trim(S) = S \ {l}, Cardinality(Trim(S)) = config.outputCount,
             \A x \in S : x.score >= l.score
      PROVE  Represented(c, Trim(S)) \/ Outdone(c, Trim(S))
  <2>1. CASE r = l
    <3>1. \A x \in S : x.score \in Int /\ c.score \in Int
      BY DEF Result
    <3> QED
      BY <1>1, <1>3, <2>1, <3>1 DEF Outdone
  <2>2. CASE r # l
    BY <1>1, <1>3, <2>2 DEF Represented
  <2> QED
    BY <2>1, <2>2
<1> QED
  BY <1>2, <1>3, TrimCases

\* AddCandidate keeps an earlier candidate that is represented, or outdone.
LEMMA CandidateKeeps ==
    ASSUME BInv, NEW d \in Result, hasInput => d.time > lastTime, NEW c \in Result,
           c = d \/ Represented(c, results) \/ Outdone(c, results)
    PROVE  Represented(c, Trim(Insert(d))) \/ Outdone(c, Trim(Insert(d)))
<1> DEFINE S == Insert(d)
<1>1. /\ S \subseteq Result /\ Distinct(S) /\ IsFiniteSet(S)
      /\ Cardinality(S) <= config.outputCount + 1
  BY InsertAddsOne, InsertKeepsApart DEF BInv
<1>2. /\ results \subseteq Result /\ IsFiniteSet(results) /\ config.outputCount \in Nat
      /\ Cardinality(results) \in Nat
  BY CaptureAssumption, FS_CardinalityType DEF BInv, IInv, TypeOK, Result
<1>3. \A x \in S \cup results \cup {c, d} : x.score \in Int
  BY <1>1, <1>2 DEF Result
<1>4. /\ d \notin results
      /\ \/ S = results /\ \E e \in results : e.track = d.track /\ e.score >= d.score
         \/ S = results \cup {d}
         \/ \E e \in results : e.track = d.track /\ d.score > e.score /\ S = (results \ {e}) \cup {d}
  BY InsertCases
<1> HIDE DEF S
<1>5. CASE c = d
  <2>1. Represented(c, S)
    BY <1>3, <1>4, <1>5 DEF Represented
  <2> QED
    BY <1>1, <1>2, <2>1, TrimRepresents DEF S
<1>6. CASE Represented(c, results)
  <2>1. PICK r \in results : r.track = c.track /\ r.score >= c.score
    BY <1>6 DEF Represented
  <2>2. Represented(c, S)
    <3>1. CASE r \in S
      BY <2>1, <3>1 DEF Represented
    <3>2. CASE r \notin S
      <4>1. r.track = d.track /\ d.score > r.score /\ d \in S
        BY <1>4, <2>1, <3>2
      <4> QED
        BY <1>3, <2>1, <4>1 DEF Represented
    <3> QED
      BY <3>1, <3>2
  <2> QED
    BY <1>1, <1>2, <2>2, TrimRepresents DEF S
<1>7. CASE Outdone(c, results)
  <2>0. Cardinality(results) = config.outputCount /\ \A r \in results : r.score >= c.score
    BY <1>7 DEF Outdone
  <2>1. CASE S = results
    <3>1. Trim(S) = S
      BY <1>1, <1>2, <2>0, <2>1, TrimCases
    <3> QED
      BY <1>7, <2>1, <3>1 DEF S
  <2>2. CASE S = results \cup {d}
    <3>1. Cardinality(S) = config.outputCount + 1
      BY <1>2, <1>4, <2>0, <2>2, FS_AddElement
    <3>2. PICK l \in S : /\ Trim(S) = S \ {l} /\ Cardinality(Trim(S)) = config.outputCount
                         /\ \A x \in S : x.score >= l.score
      BY <1>1, <1>2, <3>1, TrimCases
    <3>3. CASE l = d
      <4>1. Trim(S) = results
        BY <1>4, <2>2, <3>2, <3>3
      <4> QED
        BY <1>7, <4>1 DEF S
    <3>4. CASE l # d
      <4>1. l \in results /\ d.score >= l.score
        BY <2>2, <3>2, <3>4
      <4>2. \A x \in S : x.score >= c.score
        BY <1>3, <2>0, <2>2, <4>1
      <4> QED
        BY <3>2, <4>2 DEF Outdone, S
    <3> QED
      BY <3>3, <3>4
  <2>3. ASSUME NEW e \in results, d.score > e.score, S = (results \ {e}) \cup {d}
        PROVE  Represented(c, Trim(S)) \/ Outdone(c, Trim(S))
    <3>1. \A x \in S : x.score >= c.score
      BY <1>3, <2>0, <2>3
    <3>2. Cardinality(S) = config.outputCount
      <4>1. IsFiniteSet(results \ {e}) /\ Cardinality(results \ {e}) = config.outputCount - 1
        BY <1>2, <2>0, FS_RemoveElement
      <4>2. d \notin results \ {e}
        BY <1>4
      <4>3. Cardinality((results \ {e}) \cup {d}) = Cardinality(results \ {e}) + 1
        BY <4>1, <4>2, FS_AddElement
      <4> QED
        BY <1>2, <2>3, <4>1, <4>3
    <3>3. Trim(S) = S
      BY <1>1, <1>2, <3>2, TrimCases
    <3> QED
      BY <3>1, <3>2, <3>3 DEF Outdone
  <2> QED
    BY <1>4, <2>1, <2>2, <2>3 DEF S
<1> QED
  BY <1>5, <1>6, <1>7

\* A candidate that is not among the results gave way to one of its track that
\* is at least as good, or to results full of sightings at least as good,
\* whatever was replaced, pushed and cut since.
THEOREM BestAreKept == SpecR => []BestKept
<1>1. InitR => RankInv
  <2>1. InitR => BInv
    BY InitBound DEF InitR
  <2> QED
    BY <2>1 DEF InitR, RankInv, BestKept
<1>2. RankInv /\ [NextR]_<<vars, accepted>> => RankInv'
  <2> SUFFICES ASSUME RankInv, [NextR]_<<vars, accepted>> PROVE RankInv'
    OBVIOUS
  <2>1. BInv'
    BY BoundStep, RankingStep DEF RankInv
  <2>2. CASE UNCHANGED <<config, results, accepted>>
    BY <2>1, <2>2 DEF RankInv, BestKept
  <2>3. CASE accepted' = {}
    BY <2>1, <2>3 DEF RankInv, BestKept
  <2>4. ASSUME NEW d \in Result, hasInput => d.time > lastTime, results' = Trim(Insert(d)),
               accepted' = accepted \cup {d}, UNCHANGED config
        PROVE  RankInv'
    <3>1. ASSUME NEW c \in accepted'
          PROVE  Represented(c, results') \/ Outdone(c, results')
      <4>1. c \in Result /\ (c = d \/ Represented(c, results) \/ Outdone(c, results))
        BY <2>4, <3>1 DEF RankInv, BestKept, Represented, Outdone
      <4> QED
        BY <2>4, <4>1, CandidateKeeps DEF RankInv
    <3>2. BestKept'
      BY <2>4, <3>1 DEF BestKept, Represented, Outdone
    <3> QED
      BY <2>1, <2>4, <3>2 DEF RankInv
  <2> QED
    BY <2>2, <2>3, <2>4, RankSteps DEF RankInv, BInv
<1>3. RankInv => BestKept
  BY DEF RankInv
<1> QED
  BY <1>1, <1>2, <1>3, PTL DEF SpecR

-----------------------------------------------------------------------------
(* What a stable result is: FaceCaptureHistory. *)

\* Where sightings must be stable, every face comes from a tracking mode: only
\* the always-detect mode gives faces the id -1, which the selector also uses
\* for "no track".
TrackedFrames ==
    \A c \in Configs : c.stability => \A faces \in Frames(c) : \A f \in faces : f.track >= 0

LogEntry == [time : Nat, shows : {"none", "flat", "face"}, track : Int, place : Int]

\* The selector's clocks tell the history: it has watched its track since entry
\* i, and last saw it in entry j.
Clocks(i, j) ==
    /\ Watched(i, Len(log)) /\ log[i].time = stableSince
    /\ j >= i /\ SeenBefore(Len(log) + 1, j)
    /\ log[j].time = lastSeen /\ log[j].track = activeTrack /\ log[j].place = lastPlace

\* Result r was stable when it was taken.
WasStable(r) ==
    \E i, n \in DOMAIN log :
        /\ log[n].time = r.time /\ log[n].track = r.track
        /\ r.time - log[i].time >= config.stable
        /\ Watched(i, n)

\* The invariant that gives ResultsWereStable.
StableInv ==
    /\ IInv
    /\ log \in Seq(LogEntry)
    /\ ~config.stability => log = <<>>
    /\ config.stability => \A r \in results : WasStable(r)
    /\ config.stability /\ activeTrack >= 0 =>
         lastPlace # NoPlace /\ \E i, j \in DOMAIN log : Clocks(i, j)

\* A history variable hides no behaviour and adds none.
LEMMA HistoryStep == [NextH]_varsH => [NextR]_<<vars, accepted>>
BY DEF NextH, UpdateH, NextR, varsH

\* The selector with the history of its frames is the selector with the history
\* of its candidates.
THEOREM HistoryRefines == SpecH => SpecR
BY HistoryStep, PTL DEF SpecH, InitH, SpecR

\* What an append leaves and adds.
LEMMA AppendLog ==
    ASSUME NEW s \in Seq(LogEntry), NEW e \in LogEntry
    PROVE  /\ Append(s, e) \in Seq(LogEntry)
           /\ Len(s) \in Nat /\ DOMAIN s = 1..Len(s)
           /\ Len(Append(s, e)) = Len(s) + 1 /\ DOMAIN Append(s, e) = 1..(Len(s) + 1)
           /\ \A k \in 1..Len(s) : Append(s, e)[k] = s[k]
           /\ Append(s, e)[Len(s) + 1] = e
OBVIOUS

\* What has been watched stays so when a frame is added.
LEMMA WatchedStays ==
    ASSUME log \in Seq(LogEntry), NEW e \in LogEntry, log' = Append(log, e), UNCHANGED config,
           NEW i \in DOMAIN log, NEW n \in DOMAIN log, Watched(i, n)
    PROVE  /\ Watched(i, n)'
           /\ i \in DOMAIN log' /\ n \in DOMAIN log' /\ log'[i] = log[i] /\ log'[n] = log[n]
<1>1. /\ Len(log) \in Nat /\ DOMAIN log = 1..Len(log) /\ DOMAIN log' = 1..(Len(log) + 1)
      /\ \A k \in 1..Len(log) : log'[k] = log[k]
  BY AppendLog
<1>2. \A k \in i..n : log'[k] = log[k]
  BY <1>1
<1>3. log'[i] = log[i] /\ log'[n] = log[n] /\ i \in DOMAIN log' /\ n \in DOMAIN log'
  BY <1>1
<1>4. \A k \in i..n, j \in i..n : SeenBefore(k, j) => SeenBefore(k, j)'
  <2> SUFFICES ASSUME NEW k \in i..n, NEW j \in i..n, SeenBefore(k, j) PROVE SeenBefore(k, j)'
    OBVIOUS
  <2>1. \A m \in (j + 1)..(k - 1) : log'[m] = log[m]
    BY <1>1, <1>2
  <2> QED
    BY <1>2, <2>1 DEF SeenBefore
<1>5. ASSUME NEW k \in (i + 1)..n
      PROVE  \E j \in i..n : SeenBefore(k, j)' /\ Follows(log[j], log[k])'
  <2>1. k \in i..n
    BY <1>1
  <2>2. PICK j \in i..n : SeenBefore(k, j) /\ Follows(log[j], log[k])
    BY DEF Watched
  <2>3. Follows(log[j], log[k])'
    BY <1>2, <2>1, <2>2 DEF Follows
  <2> QED
    BY <1>4, <2>1, <2>2, <2>3
<1> QED
  BY <1>3, <1>5 DEF Watched

\* A frame that follows the last sighting prolongs the watch.
LEMMA WatchedGrows ==
    ASSUME log \in Seq(LogEntry), NEW e \in LogEntry, log' = Append(log, e), UNCHANGED config,
           NEW n, n = Len(log), NEW i \in DOMAIN log, NEW j \in DOMAIN log, Watched(i, n),
           j >= i, SeenBefore(n + 1, j), Follows(log[j], e)
    PROVE  /\ Watched(i, n + 1)' /\ SeenBefore(n + 1, j)'
           /\ i \in DOMAIN log' /\ j \in DOMAIN log' /\ log'[i] = log[i] /\ log'[j] = log[j]
<1>1. /\ n \in Nat /\ DOMAIN log = 1..n /\ DOMAIN log' = 1..(n + 1) /\ n \in DOMAIN log
      /\ \A k \in 1..n : log'[k] = log[k]
      /\ log'[n + 1] = e
  BY AppendLog
<1>2. /\ Watched(i, n)'
      /\ i \in DOMAIN log' /\ j \in DOMAIN log' /\ log'[i] = log[i] /\ log'[j] = log[j]
  BY <1>1, WatchedStays
<1>3. SeenBefore(n + 1, j)'
  BY <1>1 DEF SeenBefore
<1>4. Follows(log[j], log[n + 1])'
  BY <1>1, <1>2 DEF Follows
<1>5. ASSUME NEW k \in (i + 1)..(n + 1)
      PROVE  \E m \in i..(n + 1) : SeenBefore(k, m)' /\ Follows(log[m], log[k])'
  <2>1. CASE k = n + 1
    <3>1. j \in i..(n + 1)
      BY <1>1
    <3> QED
      BY <1>3, <1>4, <2>1, <3>1
  <2>2. CASE k # n + 1
    <3>1. k \in (i + 1)..n /\ i..n \subseteq i..(n + 1)
      BY <1>1, <2>2
    <3>2. PICK m \in i..n : SeenBefore(k, m)' /\ Follows(log[m], log[k])'
      BY <1>2, <3>1 DEF Watched
    <3> QED
      BY <3>1, <3>2
  <2> QED
    BY <2>1, <2>2
<1> QED
  BY <1>2, <1>3, <1>5 DEF Watched

\* A result that was stable stays one that was when a frame is added.
LEMMA WasStableStays ==
    ASSUME log \in Seq(LogEntry), NEW e \in LogEntry, log' = Append(log, e), UNCHANGED config,
           NEW r \in Result, WasStable(r)
    PROVE  WasStable(r)'
<1>1. PICK i \in DOMAIN log, n \in DOMAIN log :
        /\ log[n].time = r.time /\ log[n].track = r.track
        /\ r.time - log[i].time >= config.stable
        /\ Watched(i, n)
  BY DEF WasStable
<1>2. /\ Watched(i, n)'
      /\ i \in DOMAIN log' /\ n \in DOMAIN log' /\ log'[i] = log[i] /\ log'[n] = log[n]
  BY <1>1, WatchedStays
<1> QED
  BY <1>1, <1>2 DEF WasStable

\* A frame without a usable face that follows the last sighting: the track is
\* still watched.
LEMMA BlankKeepsClocks ==
    ASSUME log \in Seq(LogEntry), UNCHANGED <<config, trackVars>>,
           NEW e \in LogEntry, e.shows # "face", log' = Append(log, e),
           NEW i \in DOMAIN log, NEW j \in DOMAIN log, Clocks(i, j), Follows(log[j], e)
    PROVE  Clocks(i, j)' /\ i \in DOMAIN log' /\ j \in DOMAIN log'
<1>1. PICK n : n = Len(log)
  OBVIOUS
<1>2. n \in Nat /\ DOMAIN log = 1..n /\ Len(log') = n + 1 /\ log'[n + 1] = e
  BY <1>1, AppendLog
<1>3. Watched(i, n) /\ j >= i /\ SeenBefore(n + 1, j)
  BY <1>1 DEF Clocks
<1>4. /\ Watched(i, n + 1)' /\ SeenBefore(n + 1, j)'
      /\ i \in DOMAIN log' /\ j \in DOMAIN log' /\ log'[i] = log[i] /\ log'[j] = log[j]
  BY <1>1, <1>3, WatchedGrows
<1>5. SeenBefore(n + 2, j)'
  <2>1. \A m \in (j + 1)..((n + 2) - 1) : m = n + 1 \/ m \in (j + 1)..((n + 1) - 1)
    BY <1>2
  <2> QED
    BY <1>2, <1>4, <2>1 DEF SeenBefore
<1>6. Watched(i, Len(log))' /\ SeenBefore(Len(log) + 1, j)'
  <2>1. (n + 1) + 1 = n + 2
    BY <1>2
  <2> QED
    BY <1>2, <1>4, <1>5, <2>1
<1> QED
  BY <1>3, <1>4, <1>6 DEF Clocks, trackVars

\* A frame that shows the selected face: it starts a watch or continues one, and
\* the stability clock says which.
LEMMA SightingKeepsClocks ==
    ASSUME StableInv, config.stability, UNCHANGED config, NEW time \in Nat,
           NEW e \in LogEntry, e.time = time, e.shows = "face", log' = Append(log, e),
           NEW face, face.track >= 0, face.track \in Int, face.place # NoPlace,
           e.track = face.track, e.place = face.place, UpdateStability(face, time),
           NEW n, n = Len(log)
    PROVE  \E i \in DOMAIN log' : Clocks(i, n + 1)'
<1>1. /\ log \in Seq(LogEntry)
      /\ n \in Nat /\ DOMAIN log = 1..n /\ DOMAIN log' = 1..(n + 1) /\ Len(log') = n + 1
      /\ log'[n + 1] = e
  BY AppendLog DEF StableInv
<1>2. /\ activeTrack' = face.track /\ lastSeen' = time /\ lastPlace' = face.place
      /\ stableSince' = StableSince(face, time)
  BY DEF UpdateStability
<1>3. /\ n + 1 \in DOMAIN log' /\ SeenBefore(Len(log) + 1, n + 1)'
      /\ log'[n + 1].time = lastSeen' /\ log'[n + 1].track = activeTrack'
      /\ log'[n + 1].place = lastPlace'
  <2>1. ((n + 1) + 1)..(((n + 1) + 1) - 1) = {} /\ n + 1 < (n + 1) + 1
    BY <1>1
  <2> QED
    BY <1>1, <1>2, <2>1 DEF SeenBefore
<1>4. CASE activeTrack # face.track \/ (lastPlace # NoPlace /\ Moved(config, lastPlace, face.place))
  <2>1. stableSince' = time
    BY <1>2, <1>4 DEF StableSince
  <2>2. Watched(n + 1, n + 1)'
    <3>1. ((n + 1) + 1)..(n + 1) = {}
      BY <1>1
    <3> QED
      BY <1>1, <3>1 DEF Watched
  <2>3. n + 1 >= n + 1
    BY <1>1
  <2> QED
    BY <1>1, <1>3, <2>1, <2>2, <2>3 DEF Clocks
<1>5. CASE activeTrack = face.track /\ ~(lastPlace # NoPlace /\ Moved(config, lastPlace, face.place))
  <2>1. PICK i \in DOMAIN log, j \in DOMAIN log : Clocks(i, j)
    BY <1>5 DEF StableInv
  <2>2. ~Moved(config, lastPlace, face.place) /\ stableSince' = stableSince
    BY <1>2, <1>5 DEF StableInv, StableSince
  <2>3. /\ Watched(i, n) /\ j >= i /\ SeenBefore(n + 1, j) /\ log[i].time = stableSince
        /\ log[j].track = activeTrack /\ log[j].place = lastPlace
    BY <2>1 DEF Clocks
  <2>4. Follows(log[j], e)
    BY <1>5, <2>2, <2>3 DEF Follows
  <2>5. Watched(i, n + 1)' /\ i \in DOMAIN log' /\ log'[i] = log[i]
    BY <1>1, <2>3, <2>4, WatchedGrows
  <2>6. n + 1 >= i
    BY <1>1
  <2> QED
    BY <1>1, <1>3, <2>2, <2>3, <2>5, <2>6 DEF Clocks
<1> QED
  BY <1>4, <1>5

\* A frame that leaves results and track alone and follows the last sighting.
LEMMA StableBlank ==
    ASSUME StableInv, IInv', config.stability, UNCHANGED <<config, results, trackVars>>,
           NEW e \in LogEntry, e.shows # "face", log' = Append(log, e),
           \A sighting \in LogEntry :
             activeTrack >= 0 /\ sighting.time = lastSeen => Follows(sighting, e)
    PROVE  StableInv'
<1>1. log' \in Seq(LogEntry)
  BY AppendLog DEF StableInv
<1>2. \A r \in results' : WasStable(r)'
  BY WasStableStays DEF StableInv, IInv, TypeOK, Result
<1>3. ASSUME activeTrack >= 0
      PROVE  \E i, j \in DOMAIN log' : Clocks(i, j)'
  <2>1. PICK i \in DOMAIN log, j \in DOMAIN log : Clocks(i, j)
    BY <1>3 DEF StableInv
  <2>2. log[j] \in LogEntry /\ log[j].time = lastSeen
    BY <2>1 DEF Clocks, StableInv
  <2>3. Clocks(i, j)' /\ i \in DOMAIN log' /\ j \in DOMAIN log'
    BY <1>3, <2>1, <2>2, BlankKeepsClocks DEF StableInv
  <2> QED
    BY <2>3
<1> QED
  BY <1>1, <1>2, <1>3 DEF StableInv, trackVars

\* A frame without a face: the track is given up after the grace period.
LEMMA StableNoFace ==
    ASSUME StableInv, IInv', config.stability, NEW time \in Nat, UpdateNoFace(time),
           NEW e \in LogEntry, e.time = time, e.shows = "none", log' = Append(log, e)
    PROVE  StableInv'
<1>1. UNCHANGED <<config, results>>
  BY DEF UpdateNoFace
<1>2. CASE activeTrack >= 0 /\ time - lastSeen <= config.grace
  <2>1. UNCHANGED trackVars
    BY <1>2 DEF UpdateNoFace
  <2>2. \A sighting \in LogEntry : sighting.time = lastSeen => Follows(sighting, e)
    BY <1>2 DEF Follows
  <2> QED
    BY <1>1, <2>1, <2>2, StableBlank
<1>3. CASE ~(activeTrack >= 0 /\ time - lastSeen <= config.grace)
  <2>1. ~(activeTrack' >= 0)
    BY <1>3 DEF UpdateNoFace, ResetTrackState, NoTrack
  <2>2. log' \in Seq(LogEntry) /\ \A r \in results' : WasStable(r)'
    BY <1>1, AppendLog, WasStableStays DEF StableInv, IInv, TypeOK, Result
  <2> QED
    BY <1>1, <2>1, <2>2 DEF StableInv
<1> QED
  BY <1>2, <1>3

\* A frame whose face is evaluated: a sighting that is accepted was stable.
LEMMA StableFace ==
    ASSUME StableInv, IInv', config.stability, NEW time \in Nat,
           NEW faces \in Frames(config), NEW face \in faces, face.track >= 0,
           UpdateFace(face, faces, time),
           log' = Append(log, [time |-> time, shows |-> "face",
                               track |-> face.track, place |-> face.place])
    PROVE  StableInv'
<1> DEFINE e == [time |-> time, shows |-> "face", track |-> face.track, place |-> face.place]
           c == Candidate(face, time)
<1>1. face.track \in Int /\ face.place \in Int \ {NoPlace} /\ face.score \in Int
  BY CaptureAssumption DEF StableInv, IInv, TypeOK
<1>2. e \in LogEntry /\ e.time = time /\ e.shows = "face" /\ e.track = face.track /\ e.place = face.place
      /\ log' = Append(log, e)
  BY <1>1 DEF LogEntry
<1> HIDE DEF e
<1>3. UpdateStability(face, time) /\ UNCHANGED config
  BY DEF UpdateFace
<1>4. PICK n : n = Len(log)
  OBVIOUS
<1>5. /\ log \in Seq(LogEntry) /\ log' \in Seq(LogEntry)
      /\ Len(log') = n + 1 /\ n + 1 \in DOMAIN log' /\ log'[n + 1] = e
  BY <1>2, <1>4, AppendLog DEF StableInv
<1>6. PICK i \in DOMAIN log' : Clocks(i, n + 1)'
  BY <1>1, <1>2, <1>3, <1>4, SightingKeepsClocks
<1>7. \A r \in results : WasStable(r)'
  BY <1>2, <1>3, <1>5, WasStableStays DEF StableInv, IInv, TypeOK, Result
<1>8. CASE Rejects(face, faces, time) # {}
  <2>1. UNCHANGED results
    BY <1>8 DEF UpdateFace, RejectFace
  <2> QED
    BY <1>1, <1>3, <1>5, <1>6, <1>7, <2>1 DEF StableInv, UpdateStability
<1>9. CASE Rejects(face, faces, time) = {}
  <2>1. results' = Trim(Insert(c))
    BY <1>9 DEF UpdateFace, AcceptFace
  <2>2. results' \subseteq results \cup {c}
    BY <2>1, TrimDrops DEF Insert
  <2>3. ~(time - stableSince' < config.stable)
    BY <1>3, <1>9 DEF Rejects, StabilityRejects, UpdateStability
  <2>4. c.time = time /\ c.track = face.track
    BY DEF Candidate
  <2>5. WasStable(c)'
    <3>0. config.stable \in Nat /\ stableSince' \in Nat
      BY CaptureAssumption DEF StableInv, IInv, TypeOK
    <3>1. Watched(i, n + 1)' /\ log'[i].time = stableSince'
      BY <1>5, <1>6 DEF Clocks
    <3>2. c.time - log'[i].time >= config.stable
      BY <2>3, <2>4, <3>0, <3>1
    <3> QED
      BY <1>2, <1>3, <1>5, <2>4, <3>1, <3>2 DEF WasStable
  <2>6. \A r \in results' : WasStable(r)'
    BY <1>7, <2>2, <2>5
  <2> QED
    BY <1>1, <1>3, <1>5, <1>6, <2>6 DEF StableInv, UpdateStability
<1> QED
  BY <1>8, <1>9

\* Every step of the selector preserves the invariant.
LEMMA StableStep ==
    ASSUME TrackedFrames, StableInv, [NextH]_varsH
    PROVE  StableInv'
<1>0. IInv'
  BY NextStep, HistoryStep, RankingStep DEF StableInv
<1>1. ASSUME UNCHANGED <<config, results, trackVars, log>> PROVE StableInv'
  BY <1>0, <1>1 DEF trackVars, StableInv, WasStable, Clocks, Watched, SeenBefore, Follows
<1>2. CASE ResetState /\ log' = <<>>
  <2>1. results' = {} /\ activeTrack' = NoTrack /\ log' \in Seq(LogEntry)
    BY <1>2 DEF ResetState, ResetTrackState
  <2>2. ~(activeTrack' >= 0)
    BY <2>1 DEF NoTrack
  <2> QED
    BY <1>0, <1>2, <2>1, <2>2 DEF StableInv
<1>3. CASE Finish /\ UNCHANGED log
  BY <1>1, <1>3 DEF Finish
<1>4. ASSUME NEW faces \in Frames(config), NEW time \in 1..MaxTime, NEW newer \in BOOLEAN, NEW image \in BOOLEAN,
             NEW seen \in Selected(faces), UpdateH(faces, seen, time, newer, image),
             Accepts(time, newer, image)
      PROVE  StableInv'
  <2>0. time \in Nat /\ config \in Configs
    BY CaptureAssumption DEF StableInv, IInv, TypeOK
  <2>1. CASE ~config.stability
    <3>1. log' = log /\ UNCHANGED config
      BY <1>4, <2>1 DEF UpdateH, UpdateR, Update, UpdateNoFace, UpdateEmptyRect, UpdateFace
    <3> QED
      BY <1>0, <2>1, <3>1 DEF StableInv
  <2>2. CASE config.stability /\ UpdateNoFace(time) /\ seen = {}
    <3> DEFINE e == [time |-> time, shows |-> "none", track |-> NoTrack, place |-> NoPlace]
    <3>1. Entries(seen, time) = {e}
      BY <2>2 DEF Entries
    <3>2. e \in LogEntry /\ e.time = time /\ e.shows = "none"
      BY <2>0 DEF LogEntry, NoTrack, NoPlace
    <3>3. log' = Append(log, e)
      BY <1>4, <2>2, <3>1 DEF UpdateH
    <3> HIDE DEF e
    <3> QED
      BY <1>0, <2>0, <2>2, <3>2, <3>3, StableNoFace
  <2>3. ASSUME NEW face \in seen, config.stability
        PROVE  /\ face \in faces /\ seen = {face} /\ face.track >= 0
               /\ face.track \in Int /\ face.place \in Int
    BY <1>4, <2>0, <2>3, CaptureAssumption DEF Selected, Largest, TrackedFrames
  <2>4. ASSUME NEW face \in seen, config.stability, face.area = 0, UpdateEmptyRect(time, faces)
        PROVE  StableInv'
    <3> DEFINE e == [time |-> time, shows |-> "flat", track |-> face.track, place |-> face.place]
    <3>1. Entries(seen, time) = {e}
      BY <2>3, <2>4 DEF Entries
    <3>2. e \in LogEntry /\ e.shows = "flat"
      BY <2>0, <2>3, <2>4 DEF LogEntry
    <3>3. log' = Append(log, e)
      BY <1>4, <2>4, <3>1 DEF UpdateH
    <3>4. UNCHANGED <<config, results, trackVars>>
      BY <2>4 DEF UpdateEmptyRect
    <3> HIDE DEF e
    <3>5. \A sighting : Follows(sighting, e)
      BY <3>2 DEF Follows
    <3> QED
      BY <1>0, <2>4, <3>2, <3>3, <3>4, <3>5, StableBlank
  <2>5. ASSUME NEW face \in seen, config.stability, face.area > 0, UpdateFace(face, faces, time)
        PROVE  StableInv'
    <3>1. face \in faces /\ seen = {face} /\ face.track >= 0 /\ face.area # 0
      BY <2>3, <2>5
    <3>2. Entries(seen, time) = {[time |-> time, shows |-> "face", track |-> face.track, place |-> face.place]}
      BY <2>5, <3>1 DEF Entries
    <3>3. log' = Append(log, [time |-> time, shows |-> "face", track |-> face.track, place |-> face.place])
      BY <1>4, <2>5, <3>2 DEF UpdateH
    <3> QED
      BY <1>0, <2>0, <2>5, <3>1, <3>3, StableFace
  <2> QED
    BY <1>4, <2>1, <2>2, <2>4, <2>5 DEF UpdateH, UpdateR, Update
<1>5. ASSUME NEW faces \in Frames(config), NEW time \in 1..MaxTime, NEW newer \in BOOLEAN, NEW image \in BOOLEAN,
             NEW seen \in Selected(faces), UpdateH(faces, seen, time, newer, image),
             ~Accepts(time, newer, image)
      PROVE  StableInv'
  BY <1>1, <1>5 DEF UpdateH, UpdateR, Update, vars, trackVars
<1>6. CASE (Reset \/ \E c \in Configs, enabled \in Features : Configure(c, enabled)) /\ log' = <<>>
  BY <1>2, <1>6 DEF Reset, Configure
<1> QED
  BY <1>1, <1>3, <1>4, <1>5, <1>6 DEF NextH, varsH, vars, trackVars

\* Where faces are tracked, every result of a stability filter ends a watch of at
\* least stableDurationMs in the frames evaluated so far: no other track was
\* selected, no sighting had moved from the one before it, and every frame
\* without a face came within the grace period of the last sighting.
THEOREM ResultsStable ==
    ASSUME TrackedFrames
    PROVE  SpecH => []ResultsWereStable
<1>1. InitH => StableInv
  <2> SUFFICES ASSUME InitH PROVE StableInv
    OBVIOUS
  <2>1. IInv /\ results = {} /\ log = <<>> /\ activeTrack = NoTrack
    BY InitStep DEF InitH, InitR, Init
  <2>2. ~(activeTrack >= 0) /\ log \in Seq(LogEntry)
    BY <2>1 DEF NoTrack
  <2> QED
    BY <2>1, <2>2 DEF StableInv
<1>2. StableInv /\ [NextH]_varsH => StableInv'
  BY StableStep
<1>3. StableInv => ResultsWereStable
  BY DEF StableInv, WasStable, ResultsWereStable
<1> QED
  BY <1>1, <1>2, <1>3, PTL DEF SpecH

\* Where faces are tracked, the first sighting after a reset is unstable and not
\* collected, as the contract test expects.
THEOREM FirstUnstable ==
    ASSUME TrackedFrames
    PROVE  Spec => FirstSightingUnstable
<1> DEFINE Fresh == IInv /\ (~hasInput => activeTrack = NoTrack)
           A == ~hasInput /\ hasInput' /\ config.stability /\ config.stable > 0 => results' = {}
<1>1. Init => Fresh
  BY InitStep DEF Init
<1>2. Fresh /\ [Next]_vars => Fresh'
  <2> SUFFICES ASSUME Fresh, [Next]_vars PROVE hasInput' \/ activeTrack' = NoTrack
    BY NextStep
  <2>1. CASE ResetState
    BY <2>1 DEF ResetState, ResetTrackState
  <2>2. CASE UNCHANGED <<hasInput, activeTrack>>
    BY <2>2
  <2>3. ASSUME NEW faces \in Frames(config), NEW time \in 1..MaxTime, NEW newer \in BOOLEAN, NEW image \in BOOLEAN,
               NEW seen \in Selected(faces), Update(faces, seen, time, newer, image)
        PROVE  hasInput' \/ UNCHANGED <<hasInput, activeTrack>>
    BY <2>3 DEF Update, vars, UpdateNoFace, UpdateEmptyRect, UpdateFace, RecordInput
  <2> QED
    BY <2>1, <2>2, <2>3 DEF Next, vars, Configure, Reset, Finish, trackVars
<1>3. Fresh /\ [Next]_vars => [A]_vars
  <2> SUFFICES ASSUME Fresh, [Next]_vars, ~hasInput, hasInput', config.stability, config.stable > 0
               PROVE  results' = {}
    OBVIOUS
  <2>1. results = {} /\ activeTrack = NoTrack
    BY DEF IInv, ResultsSeen
  <2>2. PICK faces \in Frames(config), time \in 1..MaxTime, newer \in BOOLEAN, image \in BOOLEAN :
          \E seen \in Selected(faces) : Update(faces, seen, time, newer, image)
    BY DEF Next, vars, Configure, Reset, ResetState, Finish
  <2>3. UNCHANGED results \/ \E face \in faces : AcceptFace(face, time) /\ Rejects(face, faces, time) = {}
    BY <2>2 DEF Update, Selected, Largest, vars, UpdateNoFace, UpdateEmptyRect, UpdateFace, RejectFace
  <2>4. ASSUME NEW face \in faces PROVE Rejects(face, faces, time) # {}
    <3>1. face.track >= 0 /\ face.track \in Int
      BY CaptureAssumption DEF IInv, TypeOK, TrackedFrames
    <3>2. StableSince(face, time) = time
      BY <2>1, <3>1 DEF StableSince, NoTrack
    <3>3. time - time = 0
      BY CaptureAssumption
    <3> QED
      BY <3>2, <3>3 DEF Rejects, StabilityRejects
  <2> QED
    BY <2>1, <2>3, <2>4
<1> QED
  BY <1>1, <1>2, <1>3, PTL DEF Spec, FirstSightingUnstable
=============================================================================
