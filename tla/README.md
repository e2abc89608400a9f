# InspireFace: a TLA+ development

InspireFace is a C++ library for face detection, tracking, recognition and
capture, with a C API on top. Its numerical parts (models, pixels, landmarks) are
tested with pictures; this development is about the parts that pictures test
badly: handles that threads create, use and release in any order, a pool that
threads wait on, caches read after the lock that guarded them, and selectors and
trackers whose state grows over many frames. All paths below are relative to
`src/cpp/inspireface/` unless they start with `src/`.

## 1. Inventory

| part | state it keeps | operations | what makes it correct |
|---|---|---|---|
| Handle layer (`c_api/inspireface.cc`, `c_api/inspireface_internal.h`, `runtime_module/resource_manage.h`) | one process-wide registry per kind: address → owning `shared_ptr`; created/released counters; the algorithm session a capture session pins | every `HFCreate…`/`HFRelease…`; `AcquireX` at the head of every other call | no freed object is used, no object of another kind is used, nothing leaks, a release takes effect at once, every released object dies |
| Resource pool (`middleware/thread/resource_pool.h`) | deque of resources, queue of free ones, condition variable, guards | `AddResource`, three acquires, guard move and destruction | exclusive use, nothing lost, no lost wake-up |
| Capture selector (`capture.cpp`) | configuration, stability and collection clocks, ranked results | `Configure`, `Update`, `Finish`, `Reset` | results are bounded, spaced, the best offered, taken at the end of a stable watch; a finished one is frozen |
| Face session (`engine/face_session.cpp`, `session.cpp`) | tracker, pipeline, detect/token/feature caches, one mutex | `FaceDetectAndTrack`, pipeline, extraction, setters | a result holds one frame's faces, a feature is that of the face asked for; an error leaves mutexes free |
| Face tracker (`track_module/face_track_module.cpp`) | tracked faces, next id, detection counter, recovery mode | `UpdateStream`, `DetectFace`, `TrackFace`, setters | distinct fresh ids, no lost face reported, detection is never starved, the maximum number of faces is respected |
| ByteTrack (`track_module/tracker_optional/bytetrack/`) | tracked, lost and removed tracks | `update` | an id is tracked or lost, not both; a reported track was seen twice; lost ones expire; a dropped id never returns |
| Launch (`runtime_module/launch.cpp`) and model archive (`middleware/model_archive/`) | the shared archive, pixel and model lists, the similarity converter, settings | `Load`, `Reload`, `Unload`, `SwitchLandmarkEngine`, setters; sessions under construction read it | a failed load changes nothing; what is published is one package's; a session is built from one package |
| Feature hub (`feature_hub/feature_hub_db.cpp`) and embedding database (`feature_hub/embedding_db/`) | the open database, threshold, caches of the last search and the last getter, one shared pointer entity | enable, disable, insert, update, remove, search, get | lent results stay valid, the shared pointer never lags, a search is exact |
| Face actions (`common/face_info/face_action_data.h`) | per tracked face, a window of landmarks, angles and eyes | `RecordActionFrame`, `AnalysisFaceAction` | an event rests on a full window of one face's records, each counted once |
| Pipeline, recognition, inference wrappers, image processing | per-call results | one model call per face and feature | numerical |
| Bindings (`src/python`, JNI, NAPI) | native handles | marshalling | use the C API as documented |

How they interact. A client thread calls the C API with handles. The call takes
leases from the registry (each under its mutex), then works on the raw pointers;
a capture session pins its algorithm session, so the latter outlives its handle.
`HFUpdateFaceCaptureSession` holds the capture session's mutex and calls
`FaceSession::FaceDetectAndTrack`, which holds the session's mutex while it
tracks and fills the caches; the caller reads the caches after that mutex is free.
`FaceDetectAndTrack` runs the tracker (and, in one mode, ByteTrack); the capture
call hands the decoded faces to the selector, whose results are lent to the client
through a cache of the capture session. `FacesProcess` takes faces the client has kept,
looks each up among the faces tracked now, and adds to its window of actions. A session
under construction reads the archive and the two level lists of `Launch`, each under the
mutex but not all at once. The hub is separate: one mutex of
its own, results copied to `thread_local` storage by the C API. The pool sits
outside and hands sessions to one thread at a time.

The hard behaviours: release against use and address reuse in the handle layer; timeouts,
overtaking and moved guards in the pool; reading caches after unlocking; models that fail
halfway through a frame; ids, limits and counters that interact over many frames; frames
that arrive late or twice; kept faces that are processed after the tracker has gone on;
packages that are reloaded, unloaded or fail to load while sessions are built; results
lent to callers while other threads search or disable the hub. `PROJECT.json` lists each
at its line.

## 2. Modules

| module | models | TLC instance |
|---|---|---|
| `ObjectLifetime` | abstract: what the comment on `ResourceLease` promises of an object's life | – |
| `HandleRegistry` | the handle layer | `MCHandleRegistry` |
| `HandleRegistry_proofs`, `HandleLifetime_proofs` | its theorems; those about the life of objects, the refinement among them | – |
| `ResourceLending` | abstract: a queue that lends each resource to one thread at a time | – |
| `ResourcePool`, `ResourcePool_proofs` | the pool, its theorems and the refinement | `MCResourcePool` |
| `FaceCapture`, `FaceCapture_proofs` | the selector, its theorems | `MCFaceCapture` |
| `FaceCaptureRanking`, `FaceCaptureHistory` | the selector with history variables (candidates offered, frames evaluated), the second on top of the first | `MCFaceCaptureHistory` |
| `Sublists` | helper: a list without some of its elements, without recursion | – |
| `FaceAction` | the window behind a face's interaction events, as operators | with `SessionCache` |
| `SessionCache`, `SessionCache_proofs` | threads that track, process, extract, snapshot and capture on shared sessions, its theorems | `MCSessionCache` |
| `ByteTrack` | the tracker of track-by-detect mode | with `FaceTrack` |
| `FaceTrack`, `FaceTrack_proofs` | the tracker of one session, ByteTrack inside it, theorems about both | `MCFaceTrack` |
| `Launch`, `Launch_proofs` | what the library publishes to sessions, and sessions under construction, its theorems | `MCLaunch` |
| `FeatureHub`, `FeatureHub_proofs` | hub, its table, and the C API results it lends, its theorems | `MCFeatureHub` |

**HandleRegistry.** Each C API function is a sequence of instructions
(`Acquire`, `Make`, `Work`, `Publish`, `Unregister`, …); a thread executes one at
a time, so that one instruction is one critical section of the registry's mutex or
one stretch of code outside it. Objects have addresses, dead objects' addresses are
handed out again, and handles clients keep are addresses. `Reap` destroys an object
when its last owner (registry entry, lease, local, pin of a capture session) goes.
Refinement: `ObjectLifetime` is instantiated with the stage, users and base of each
object computed from registry, leases and pins; `ImplementsLifetime` is its `Spec`.

**ResourcePool.** One action per member function; a wait is two actions, with
spurious wake-ups, timeouts and callers that overtake between them. A guard
keeps its reference after a move and its validity not, as in the code. Refinement:
`ResourceLending` has no guards and no waits, only who has which resource; it is
instantiated with the threads that have a valid guard of each (`Borrowers`).

**FaceCapture.** `Update` is one action, from the stale-frame test through stability,
filters, insertion, sorting and truncation to the report; what it leaves of a frame is its
parameter, so that the history modules can look at the same choice (`Selected`). Whether a
rectangle has moved beyond the thresholds of the configuration is the constant operator
`Moved`, of which nothing is assumed: the code compares a frame with the one before it
only, and small motions may add up to a large one. The two history modules conjoin a
variable to every action of it and restrict nothing: `RankingRefines` and `HistoryRefines`
in the proofs say so.

**SessionCache.** The two mutexes are explicit; the caches are filled and read one
face at a time. A read of a cache another thread is writing yields `Garbage`. Each
remaining call is one critical section: `FacesProcess`, with models that may fail at any
face, the capture calls, and `ClearTrackingFace`, which has no lock. A face keeps its
window (`FaceAction`) for as long as it is tracked. A model that fails in the middle of a
frame leaves any of the old and new faces, each once (`Remains`): those before it are
tracked, those behind it are not. The capture session's selector is
abstract here: its results are the faces it last accepted. An extraction fills the
session's feature cache under the mutex and copies from it after the mutex is free, as
the code does; the C API's extraction from an aligned image touches no cache. `plan` says
which operations a thread calls, and how many.

**FaceTrack.** One action per frame: recovery, detection when due, tracking of each
face with all outcomes, removal of lost faces; either model may fail at each call.
Setters and `ClearTrackingFace` run between frames. In track-by-detect mode the frame's
boxes go through **ByteTrack**: `Update` takes any matching of boxes to tracks that the
assignments could yield, any set of duplicates, and applies the lists' rules exactly as
the code does, the removal that lags one frame behind included.

**Launch.** A load is three steps under the mutex (begin, parse and update the
converter, swap), in which it may fail; `Unload`, the engine switch and the setters are
one step each. A session under construction takes the archive, the pixel list and the
model list in three critical sections, in this order, and then asks the archive for its
models. The similarity converter has a mutex of its own, so that clients set its
configuration or its recommended threshold, or destroy the instance, also in the middle
of a load. `call` records, for the properties, whether a reload or a client's list came in
between, and `overridden` which of the published parts a client has set since.

**FeatureHub.** One action per member function, since each holds the hub's mutex;
the C API's search is split around it. Rows on file survive disabling, rows in memory
do not. Any SQLite statement may fail.

Definitions whose comment begins with "Mutant" are no part of the system: each is a
plausible wrong version of the definition that follows it (a lost reset, a dropped
lease, a missing notification), kept to show that the property it is paired with in
`PROJECT.json` notices the difference.

## 3. What TLC checks

| run | question | instance | result |
|---|---|---|---|
| `handle_threads` | sessions, streams, snapshots, captures in every interleaving | 2 threads, 3 objects | 5 properties hold, the refinement among them |
| `handle_recycled` | handles of the wrong kind, reused addresses; are released objects destroyed? | fair threads, 3 objects over 2 addresses | 4 hold |
| `pool` | exclusive use, lost resources, lost wake-ups, waits that end | 3 threads, 2 guards each, 2 resources, 2 calls each | 4 hold |
| `capture` | what the result set holds, and were the results stable? | 2 tracks, 3 scores, or 3 places a face drifts or moves between, 5 timestamps | 6 hold |
| `capture_untracked` | the same with untracked faces | 4 timestamps | **violated**, finding 1 |
| `session_apart` | whose faces, actions, features and results does a caller get? | 2 threads on one capture, 1 on everything, or 1 that tracks and 1 that extracts; 2 frames | 6 hold |
| `session_shared` | two capture handles on one session | 2 threads, 1 call each | **violated**, finding 2 |
| `track_modes` | ids, failures, recovery, detection, ByteTrack's lists | 3 modes, 2 boxes a frame, 5 frames between recoveries | 9 hold |
| `track_limit` | the maximum number of faces | maximum 1, up to 5 frames | **violated**, finding 3 |
| `hub` | lent results, the shared pointer, exactness of search | 2 threads, 2 features, 2 rows | 3 hold |
| `launch` | what is published, what sessions are built from | 2 threads, 2 packages that load and 2 that fail | 3 hold |
| `launch_race` | a reload while a session is built | the same, no client sets lists | **violated**, finding 4 |

Why the bounds are enough to be interesting.
Handles: a use-after-free needs a user and a releaser, hence two threads; reuse
needs fewer addresses than objects; the longest chain of owners is a capture that
pins a session while a call leases both, three objects. The calls on two handles of
different kinds (`HFFaceGetFaceAlignmentImage`, an update with a snapshot) and those on
bitmaps add interleavings of the same instructions; TLC's runs leave them out and the
theorems, which hold for every set of functions, cover them.
Pool: three threads for a waiter, a returner and one that overtakes; two slots for a
move; two resources, so that one notification must not serve two returns.
Selector: two tracks and five timestamps exceed the interval, the stability, the
grace period and the collection time together; the result set overflows its two places.
Of three places in a row the neighbours are within the motion threshold and the ends are
not, so that a face can drift from one end to the other with its clock kept, or jump.
Sessions: frames of one and two faces, so that a stale count differs, and in which the
face that stays changes its index, so that a stale index names another face. A window of
two records: five calls of one thread fill it, blink, and fill it again; three calls of
one thread and two of another put a loan, its reader and an update in every order; three
extractions beside two snapshots fill the feature cache, fail on it and fill it again.
Tracker: the detection counter runs over five frames, two past the longest interval
(3), and starts again after a recovery; a frame may detect as many faces as the limit
while others are tracked. `MaxId` ends a behaviour before a sixth id, `MaxTracked`
before a fourth face, `MaxTrackId` before a fourth track: a frame beyond a bound is not
taken. `MaxTimeLost` is 1, so that a track is lost, kept, expired and dropped in four
frames.
Launch: two packages that share a level at different places of their lists, so that a
pair of one package's size and the other's detector exists; a session asks for the default
level or one that both packages round to their nearest; two threads, as every race is
one of a load with a session or with another load. The state space is finite without
a bound.
Hub: two similarity levels around the threshold, a tie between equal rows, a row with
the reserved id −1 that an older database file may hold.

Symmetry is used where no temporal property is checked that it could spoil: threads
and addresses in the handle runs without liveness, threads in `hub`.
`CHECK_DEADLOCK FALSE` is given where clients make a bounded number of calls and then
stop (`pool`, `session_*`, `track_*`); nothing else may stop.

### Fairness

`handle_recycled`: a thread inside a C API call takes its next step (calls contain no
waiting but for mutexes held for finitely many steps). The clients owe nothing: they
need not release anything. `pool`: the program fills the pool; a woken thread runs;
a timed wait times out; a thread that is not waiting lets a guard it holds go out
of scope. No fairness is assumed of spurious wake-ups or of new calls. `EveryWaitEnds`
excepts the one state in which no implementation could help: every resource held by
threads that wait for another. `session_apart`: a thread in a call proceeds, and
`std::mutex` admits some waiter; calls are finite in number.

### Findings

1. `capture.cpp:397`: the idle value of `activeTrackId_` is −1, which is also the id
   of every face in always-detect mode. A first sighting is taken for a track watched
   since time 0 and passes any stability filter (`capture_untracked`); the unit test
   `test_face_capture_selector_contract.cpp:227` expects `CAPTURE_STATE_STABILIZING`.
2. `c_api/inspireface.cc:1526`: two capture sessions on one face session read its
   detect cache under two different mutexes (`session_shared`), although
   `inspireface.h:970-971` allows different capture handles to run concurrently.
3. `track_module/face_track_module.cpp:462`: the limit counts the candidates of one
   detection; in light tracking they join the faces already tracked, and the frame
   reports more than the maximum (`track_limit`); the Python binding raises an error.
4. `track_module/face_track_module.cpp:612`: the archive, the list of sizes and the list
   of detectors are read in three critical sections; a reload in between configures a
   session with a detector at a size its package pairs with another (`launch_race`),
   though `engine/face_session.h:412-413` says the session pins one archive.

Smaller divergences, met while modelling and not worth a run: `Unload` leaves the level
lists and the converter of the last package, where `include/inspireface/launch.h:77`
promises the system's initial state; sessions keep the archive they were built on, where
`inspireface.h:433` speaks of releasing all resources; a package without a landmark table
accepts a switch to any landmark engine; a reload returns to the package's default engine.

The `pass` runs of these components are chosen around the findings and say so in their
names: `session_apart` is the discipline under which the caches are safe, each session
tracked by one thread or through one capture session, and its features extracted by one
thread, and `capture` uses tracked faces.
`launch` asks of a session only what holds if no reload and no list set by the client came
in between; an unload or a switch of engines may.

## 4. What is proved

All theorems hold for every value of the constants that satisfies the assumption of
their module; what an assumption does not name is unconstrained.

| assumption | says |
|---|---|
| `HandleAssumption` | the null handle and the absent object are no address and no object |
| `PoolAssumption` | finitely many threads |
| `CaptureAssumption` | intervals, stable durations and output counts are natural numbers; tracks, places and scores of faces are integers, and no place is the one that stands for none |
| `SessionAssumption` | a capture session pins one session; frames hold lists of faces |
| `WindowAssumption` | a window has at least one record |
| `TimeLostAssumption` | a lost track is kept for at least one frame |
| `TrackAssumption` | the three modes, and intervals of at least one frame |
| `LaunchAssumption` | a package that loads has as many sizes as detectors, one at least |
| `HubAssumption` | configurations are well-typed and a database file holds finitely many rows, all of them features |

Where a module has a theorem `TypeCorrect` (`LaunchTypeOK`), the runs leave the type
invariant to it.

* **HandleRegistry** (`TypeCorrect`, `NoDangling`, `NestedLeases`, `NoCollision`).
  `NoDanglingUse` is not inductive: it says of a call that is about to work that the
  object at its handle's address is alive and of the right kind, but not why. `IInv`
  adds the why: a registry entry and a lease keep their object alive; two live objects
  have two addresses; a call past an acquire instruction has the lease it took, and the
  leased object has the address of the handle; what is built but not yet
  published is nobody else's. The programs enter through one fact, `WellFormed`, which
  is checked for each function: what the body uses was acquired before. Each step keeps
  `IInv`: leases only appear by acquiring and go by returning (`InvAcquire`,
  `InvReturn`), a release removes an entry and not the lease (`InvRelease`), and `Reap`
  destroys only what nobody owns (`ReapFacts`).
* **HandleLifetime** (`NothingLeaks`, `NoLateLease`, `StatisticsTrue`,
  `HandlesImplementLifetimes`). These need the other direction: not that an owner keeps
  its object alive but that a live object has an owner (`AliveIsOwned`). `JInv` adds to it
  where a call's local owners come from (`LocalsExplained`), that a released object is in
  no registry (`ReleaseIsFinal`), and that only capture sessions pin. Every step then maps
  to a step of `ObjectLifetime` or to a stutter: an acquire to a use, a removal from the
  registry to a release, a `Reap` to a destruction.
* **ResourcePool** (`TypeCorrect`, `ExclusiveUse`, `AllAccountedFor`, `WakeupsKept`,
  `PoolLends`).
  Exclusive use and completeness are inductive with two facts about guards: a valid one
  refers to a resource of the pool, and a waiting thread has a place for its guard.
  `WakeupsKept` counts: the queue grows by one only with a notification, which wakes a
  sleeper if there is one, and a woken thread goes only with a resource, or having seen
  an empty queue. `PoolLends` is the refinement of `ResourceLending`: whichever acquire
  takes the front of the queue is `Borrow` (`TakeBorrows`), which finds nobody else with
  the resource; the end of a valid guard is `Return` (`DropReturns`), by the only thread
  that has it; a move, a wait and a wake-up are stutters. TLC confirms it on the instance
  of `pool`.
* **FaceCapture** (`TypeCorrect`, `ResultsSpaced`, `Frozen`, `ResultsBounded`,
  `NeverWorse`, `BestAreKept`, `ResultsStable`, `FirstUnstable`). `AddCandidate` compares
  a candidate with the nearest result of its track only, so `Spaced` could fail when a
  replacement comes close to a third result. It does not, because no result is later than
  the last frame (`ResultsSeen`) and results are spaced already: at most one is near a new
  candidate (`NearIsOne`). `ResultsBounded` adds that results are of different frames, so
  that there is one worst result to replace, and that the reported state agrees with the
  number of results (`BInv`). The same invariant gives `NeverWorse`, step by step: the
  result that leaves scores no more than the one that comes. `BestAreKept` speaks of every
  candidate ever offered: one that is not among the results is represented by a result of
  its track at least as good, or outdone by a full set of such, and both survive what
  replaces those (`RankInv`). `ResultsStable` relates the selector's clocks to the frames
  it has seen: since the clock was started it has watched one track, each sighting unmoved
  from the last, each frame without a face within the grace period of it (`Clocks`,
  `StableInv`). That is all the code ensures: a face may drift, the next frame with a face
  may come at any time after the last one without, and frames whose selected face has no
  area neither stop nor test the clock. It holds under `TrackedFrames`: a configuration
  that asks for stability is given faces of a tracking mode only. Without it, finding 1;
  with it, also a first sighting is never taken for a stable one (`FirstUnstable`).
* **SessionCache** (`LoansStay`, `CachesFollow`, `ActionsOwned`, `NoCircularWait`,
  `FacesOwned`, `CapturesConcurrent`, `FeaturesOwned`). The first four hold for any
  clients. Their invariant has four parts:
  the records of running calls are well formed (`CallsOK`); a thread that tracks holds
  its session's mutex, and the caches it fills follow the tracker (`CacheInv`); a window
  holds records of the face it belongs to (`TrackerInv`); a clean result cache shows the
  selector's results, and a current loan a clean cache (`LoanInv`). `NoCircularWait` is
  what safety there is in `EveryCallReturns`: a locked mutex is that of a call which is
  past the point where it waits for it and has not returned, and only an update of a
  capture session waits for that session's mutex before it tracks (`LocksInv`); whoever
  holds a session's mutex is at no other, whoever holds a capture session's at most at
  the session's; so every waiting thread waits for one that goes on, at most two mutexes
  away (`WaitsAreShort`). The last three hold under a discipline that is their
  hypothesis. `OneOwner`: a session is tracked and cleared by one thread, or through one
  capture session, whose mutex then closes the gap in which the caches are read
  (`SerialInv`); a call between its tracking and its reading finds the caches of its own
  frame (`FrameInv`). Under it the header's promise that finding 2 refutes is true
  (`CapturesConcurrent`). `OneExtractor`: one thread extracts on a session, so that
  between its unlock and its copy the feature cache stays (`FeatureInv`).
  `session_shared` shows that the first discipline is needed.
* **Launch** (`LaunchTypeOK`, `LaunchCoherent`, `LaunchQuietSessionsMatch`,
  `LaunchAllOrNothing`, `LaunchDetectorIsOwn`). A load publishes in two places, so the
  invariant says what it has replaced at each of its steps (`PublishInv`), and coherence
  is of the moments when no load is under way. Clients write lists and converter too, so
  each part is the package's unless a client has set that very part since
  (`ConverterInv`); what a session has read is one package's as long as no reload or
  client's list came in between (`QuietInv`). `LaunchDetectorIsOwn` is finding 4 under a
  discipline: if no package is swapped in while a session is being created (`SwapsAlone`,
  an action property of the behaviour; parsing may overlap), no reload comes between its
  reads (`NoReload`), and every session runs the detector its package has for its size.
* **FaceTrack and ByteTrack** (`FacesHaveDistinctIds`, `NewFacesHaveFreshIds`,
  `NoLostFace`, `LostAreSearched`, `DetectionIsNotPutOff`, `LimitHoldsOutsideLight`,
  `FacesRunTracker`;
  `TracksHaveOneIdentity`, `TracksSeenTwice`, `TracksExpire`, `TracksDroppedForGood`).
  New ids differ from old ones only because every id of a tracked face has been given out
  (`Fits`); detection comes in time because the frames since the last one are never more
  than the remainder of the index, which recovery sets to 0. The lists that the tracker
  filters are functions of the places that stay (`Sublist`), whose existence rests on the
  pigeonhole principle (`PlaceExists`). `update` of ByteTrack takes the ids removed a frame
  ago from the lost list, not those removed now, so a track that has expired stays for one
  frame: `ExpiredAreRemoved` says that whatever is too old is on the removed list, and so
  leaves with the next frame. `LimitHoldsOutsideLight` bounds what a frame reports by what
  it detects where it starts from no face: ByteTrack continues or starts no more tracks
  than it is given boxes (`FewTracks`), so finding 3 is one of light tracking only.
  `FacesRunTracker` carries the theorems about tracks over to the face tracker.
* **FeatureHub** (`TypeCorrect`, `PointerNeverLags`, `LentResultsStay`,
  `SearchesAreExact`). The invariant is the conjunction of the first three, each nearly
  inductive: an absent pointer means a disabled hub, so a call that finds something always
  has an entity to point with, and a thread writes to its own cell only (`LendKeeps`).
  `SearchesAreExact` is about the order in which a search applies its two limits: the
  nearest k rows are taken first and the threshold after. That loses nothing, as rows that
  pass come before rows that do not (`NearestPass`), so that fewer than k are returned
  only when no other row passes (`NearestFull`, `Exact`).

Only model-checked. Liveness (`ReleasedIsDestroyed`, `EveryWaitEnds`,
`EveryCallReturns`) and everything under fairness, which the prover does not reach. Every
invariant and action property of a passing run is a theorem. Of the four properties that
a run violates, each is a theorem under the discipline that excludes its finding; that the
code fails them without it is TLC's counterexample.

## 5. What is not modelled

* Numbers and pixels: models, alignment, landmarks, similarity, Kalman filters, colour
  conversion. Where control depends on them they are a choice over their outcomes.
* Pointers to the similarity converter that C++ clients keep: `destroyInstance` is a step
  of its own between calls, and destroying the instance under a running call of another
  thread is undefined in the code.
* The settings of `Launch` (backend, device, paths): one word each, read once.
  `Launch::getMArchive` keeps a thread-local pin for callers that hold a reference; the
  model's sessions hold the pointer itself.
* In `SessionCache` a face keeps its identity and its window while it is tracked, which
  is the case of light tracking. In the other two modes each frame has new face objects
  (with id −1 where every frame is a detection), whose windows never fill.
* The setters of a session, the caches of the pipeline's results (mask, liveness,
  quality, attribute, emotion), which are copied like the feature cache, and the face
  events that change no state.
* Setters that change a tracker without the session's mutex while a frame runs
  (`engine/face_session.cpp:514`), extraction from an aligned image past that mutex
  (`c_api/inspireface.cc:1996`), the hub's getters that lend references without its
  mutex, and the structs behind feature handles: data races between callers whose
  outcome no document states.
* The top-k and all-ids caches of the hub, batch inserts, and users of `EmbeddingDB`
  that bypass the hub.
* The deferred release of outputs in the inference wrappers.
* Bindings (the image buffers of JNI and NAPI among them), logging, timing, hardware
  buffers.

## 6. Plan

In this order.

1. `CaptureSession`: `SessionCache` and `FaceCapture` composed, the capture session's
   selector in full where `SessionCache` has its last accepted faces.
2. `DeferredOutput` and the pipeline caches.
3. The image buffers of the JNI binding, which callers may release while a stream uses
   them.
