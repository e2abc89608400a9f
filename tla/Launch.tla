------------------------------- MODULE Launch -------------------------------
(***************************************************************************)
(* The launch of the SDK (runtime_module/launch.cpp): one process-wide     *)
(* object publishes the loaded resource package in four pieces, its        *)
(* archive, two parallel lists of detection levels, and the configuration  *)
(* of the similarity converter, while threads create sessions from them    *)
(* (FaceSession::Configuration, FaceTrackModule::Configuration).           *)
(*                                                                         *)
(* The pieces are read and written under one mutex, the converter under a  *)
(* mutex of its own.  A session takes the archive, the list of sizes and   *)
(* the list of detectors in three critical sections, one after the other.  *)
(*                                                                         *)
(* Abstractions: a package is its detection levels, the models it holds    *)
(* and how far loading it gets; an archive is an immutable snapshot, so    *)
(* its value stands for the shared_ptr.  Loading a path that does not      *)
(* exist, and launching twice, return before anything happens; so does a   *)
(* call of the converter with values it refuses.                           *)
(***************************************************************************)
EXTENDS Integers, Sequences

CONSTANTS
    Threads,
    Packages,
    DetectorNames, \* names of detector models
    Outcome,      \* Outcome[p]: how loading p ends
    PixelsOf,     \* PixelsOf[p]: face_detect_pixel_list of p's manifest
    DetectorsOf,  \* DetectorsOf[p]: face_detect_model_list of p's manifest
    ModelsOf,     \* ModelsOf[p]: the models LoadModel finds in p
    EnginesOf,    \* EnginesOf[p]: the engines of p's landmark_table; empty without a table
    PixelLists,   \* lists C++ clients set
    DetectorLists,
    PixelLevels,  \* detection levels clients ask for; -1 for the default
    Optional      \* sets of models a session may need beside the basic ones

Outcomes == {"malformed", "refused_by_converter", "good"}
DefaultEngine == "landmark"
Engines == {DefaultEngine, "landmark_0_50", "landmark_insightface_2d106"}
NoThread == "no_thread"
NoArchive == [pkg |-> "none", engine |-> "none"]
Archive(p, engine) == [pkg |-> p, engine |-> engine]

\* ParseManifest: two lists of the same length, with at least one level.
ASSUME LaunchAssumption ==
    /\ NoThread \notin Threads /\ "none" \notin Packages
    /\ {"face_detect_160", "face_detect_320", "face_detect_640"} \subseteq DetectorNames
    /\ Outcome \in [Packages -> Outcomes]
    /\ PixelLists \subseteq Seq(Int) /\ DetectorLists \subseteq Seq(DetectorNames)
    /\ \A p \in Packages :
         Outcome[p] = "good" =>
             /\ PixelsOf[p] \in Seq(Int) /\ DetectorsOf[p] \in Seq(DetectorNames)
             /\ Len(PixelsOf[p]) = Len(DetectorsOf[p]) /\ PixelsOf[p] # <<>>

VARIABLES
    archive,    \* m_archive_
    loaded,     \* m_load_
    pixels,     \* m_face_detect_pixel_list_
    detectors,  \* m_face_detect_model_list_
    converter,  \* SimilarityConverter: where its configuration and its recommended
                \* threshold come from: a package, a client or the defaults
    mutex,      \* Launch::Impl::mutex_, held across steps by a load only
    call,       \* call[t]: what thread t is doing, or the session it holds
    overridden  \* history: what clients have set since a load last published it

published == <<archive, loaded, pixels, detectors>>
vars == <<archive, loaded, pixels, detectors, converter, mutex, call, overridden>>

Idle == [op |-> "idle"]

Lists == {"pixels", "detectors"}
ConverterParts == {"config", "threshold"}

InitialPixels == <<160, 320, 640>>
InitialDetectors == <<"face_detect_160", "face_detect_320", "face_detect_640">>

-----------------------------------------------------------------------------
Init ==
    /\ archive = NoArchive /\ loaded = FALSE
    /\ pixels = InitialPixels /\ detectors = InitialDetectors
    /\ converter = [config |-> "default", threshold |-> "default"]
    /\ mutex = NoThread
    /\ call = [t \in Threads |-> Idle]
    /\ overridden = {}

-----------------------------------------------------------------------------
(* Load and Reload. *)

State == [archive |-> archive, loaded |-> loaded, pixels |-> pixels,
          detectors |-> detectors, converter |-> converter]

\* The converter after p's configuration and threshold have been published, and
\* clients have set some parts of it again.
ConverterOf(p) ==
    LET Kept(part) == IF part \in overridden THEN converter[part] ELSE p
    IN  [config |-> Kept("config"), threshold |-> Kept("threshold")]

\* What a package publishes.
Generation(p) == [archive |-> Archive(p, DefaultEngine), loaded |-> TRUE, pixels |-> PixelsOf[p],
                  detectors |-> DetectorsOf[p], converter |-> ConverterOf(p)]

Publishing(p, step) == [op |-> "publish", pkg |-> p, step |-> step, before |-> State]

\* Mutant: the package is parsed before the mutex is taken.
BeginUnlocked(t, p) ==
    /\ call[t] = Idle /\ mutex = NoThread
    /\ call' = [call EXCEPT ![t] = Publishing(p, "parse")]
    /\ UNCHANGED <<published, converter, mutex, overridden>>

BeginLoad(t, p) ==
    /\ call[t] = Idle /\ mutex = NoThread
    /\ mutex' = t
    /\ call' = [call EXCEPT ![t] = Publishing(p, "parse")]
    /\ UNCHANGED <<published, converter, overridden>>

\* HFLaunchInspireFace: "no need to call launch more than once".
Load(t, p) == ~loaded /\ BeginLoad(t, p)
\* HFReloadInspireFace.
Reload(t, p) == BeginLoad(t, p)

At(t, step) == call[t].op = "publish" /\ call[t].step = step
Goto(t, step) == call' = [call EXCEPT ![t].step = step]

GiveUp(t) ==
    /\ mutex' = NoThread
    /\ call' = [call EXCEPT ![t] = Idle]
    /\ UNCHANGED <<published, converter, overridden>>

\* InspireArchive::ReLoad of a new archive.
Parse(t) ==
    /\ At(t, "parse")
    /\ \/ Outcome[call[t].pkg] = "malformed" /\ GiveUp(t)
       \/ /\ Outcome[call[t].pkg] # "malformed"
          /\ Goto(t, "converter")
          /\ UNCHANGED <<published, converter, mutex, overridden>>

\* Mutant: the lists are published before the converter has accepted.
PublishListsFirst(t) ==
    /\ At(t, "converter")
    /\ pixels' = PixelsOf[call[t].pkg] /\ detectors' = DetectorsOf[call[t].pkg]
    /\ IF Outcome[call[t].pkg] = "good"
       THEN /\ converter' = [config |-> call[t].pkg, threshold |-> call[t].pkg]
            /\ Goto(t, "swap")
            /\ UNCHANGED mutex
       ELSE /\ call' = [call EXCEPT ![t] = Idle] /\ mutex' = NoThread
            /\ UNCHANGED converter
    /\ overridden' = overridden \ ConverterParts
    /\ UNCHANGED <<archive, loaded>>

\* updateConfigAndRecommendedThreshold: both or, when it refuses, neither.
PublishConverter(t) ==
    /\ At(t, "converter")
    /\ \/ Outcome[call[t].pkg] = "refused_by_converter" /\ GiveUp(t)
       \/ /\ Outcome[call[t].pkg] = "good"
          /\ converter' = [config |-> call[t].pkg, threshold |-> call[t].pkg]
          /\ overridden' = overridden \ ConverterParts
          /\ Goto(t, "swap")
          /\ UNCHANGED <<published, mutex>>

\* A session under construction no longer reads one generation.
Disturb(d) ==
    [s \in Threads |-> IF call[s].op = "create" /\ call[s].disturbed # "client"
                       THEN [call[s] EXCEPT !.disturbed = d] ELSE call[s]]

\* The three swaps.
Swap(t) ==
    /\ At(t, "swap")
    /\ archive' = Archive(call[t].pkg, DefaultEngine)
    /\ loaded' = TRUE
    /\ pixels' = PixelsOf[call[t].pkg] /\ detectors' = DetectorsOf[call[t].pkg]
    /\ mutex' = NoThread
    /\ call' = [Disturb("reload") EXCEPT ![t] = Idle]
    /\ overridden' = overridden \ Lists
    /\ UNCHANGED converter

-----------------------------------------------------------------------------
(* The other writers. *)

\* Mutant: unloading resets the lists to their initial values.
UnloadResets ==
    /\ mutex = NoThread
    /\ loaded
    /\ archive' = NoArchive /\ loaded' = FALSE
    /\ pixels' = InitialPixels /\ detectors' = InitialDetectors
    /\ UNCHANGED <<converter, mutex, call, overridden>>

\* The lists and the converter stay as they were.
Unload ==
    /\ mutex = NoThread
    /\ loaded
    /\ archive' = NoArchive /\ loaded' = FALSE
    /\ UNCHANGED <<pixels, detectors, converter, mutex, call, overridden>>

\* A replacement archive, with another landmark engine; a package without a
\* landmark table takes every engine for granted.
SwitchLandmarkEngine(engine) ==
    /\ mutex = NoThread
    /\ archive # NoArchive
    /\ EnginesOf[archive.pkg] # {} => engine \in EnginesOf[archive.pkg]
    /\ archive' = Archive(archive.pkg, engine)
    /\ UNCHANGED <<loaded, pixels, detectors, converter, mutex, call, overridden>>

SetFaceDetectPixelList(list) ==
    /\ mutex = NoThread
    /\ pixels' = list
    /\ overridden' = overridden \cup {"pixels"}
    /\ call' = Disturb("client")
    /\ UNCHANGED <<archive, loaded, detectors, converter, mutex>>

SetFaceDetectModelList(list) ==
    /\ mutex = NoThread
    /\ detectors' = list
    /\ overridden' = overridden \cup {"detectors"}
    /\ call' = Disturb("client")
    /\ UNCHANGED <<archive, loaded, pixels, converter, mutex>>

\* A load that fails leaves what clients have set meanwhile.
Amend(new) ==
    [s \in Threads |-> IF call[s].op = "publish"
                       THEN [call[s] EXCEPT !.before.converter = new] ELSE call[s]]

\* The converter has a mutex of its own: clients also set it during a load.
ClientSets(parts, new) ==
    /\ converter' = new
    /\ overridden' = overridden \cup parts
    /\ call' = Amend(new)
    /\ UNCHANGED <<published, mutex>>

\* HFUpdateCosineSimilarityConverter, updateConfig: not the recommended threshold.
UpdateConverter == ClientSets({"config"}, [converter EXCEPT !.config = "client"])

SetRecommendedCosineThreshold ==
    ClientSets({"threshold"}, [converter EXCEPT !.threshold = "client"])

\* destroyInstance: the next call makes a converter with the defaults.
DestroyInstance ==
    ClientSets(ConverterParts, [config |-> "default", threshold |-> "default"])

-----------------------------------------------------------------------------
(* Creating a session. *)

Distance(x, y) == IF x < y THEN y - x ELSE x - y

\* The detection levels a pair of lists offers.
Indices(sizes, names) == 1..(IF Len(sizes) < Len(names) THEN Len(sizes) ELSE Len(names))

\* The first of a set of indices.
IsFirst(i, S) == i \in S /\ \A j \in S : i <= j

\* ChoiceMultiLevelDetectModel: 320, or else the second level, by default; the
\* first of the nearest sizes for a level asked for.
IsChoice(i, sizes, names, level) ==
    LET all     == Indices(sizes, names)
        the320  == {j \in all : sizes[j] = 320}
        nearest == {j \in all : \A k \in all :
                        Distance(level, sizes[j]) <= Distance(level, sizes[k])}
    IN  IF level # -1 THEN IsFirst(i, nearest)
        ELSE IF the320 # {} THEN IsFirst(i, the320)
        ELSE i \in all /\ i = (IF 2 \in all THEN 2 ELSE 1)

\* HFCreateInspireFaceSession, FaceSession::Configuration: the archive is pinned.
AcquireArchive(t, level, wants) ==
    /\ call[t] = Idle /\ mutex = NoThread
    /\ archive # NoArchive
    /\ call' = [call EXCEPT ![t] =
                 [op |-> "create", archive |-> archive, level |-> level, wants |-> wants,
                  step |-> "pixels", sizes |-> <<>>,
                  disturbed |-> IF overridden \cap Lists # {} THEN "client" ELSE "no"]]
    /\ UNCHANGED <<published, converter, mutex, overridden>>

Creating(t, step) == call[t].op = "create" /\ call[t].step = step

ReadPixelList(t) ==
    /\ Creating(t, "pixels") /\ mutex = NoThread
    /\ call' = [call EXCEPT ![t].sizes = pixels, ![t].step = "detectors"]
    /\ UNCHANGED <<published, converter, mutex, overridden>>

\* The models a session loads from its archive.
Needed(c, detector) == {detector, c.archive.engine, "refine_net"} \cup c.wants

Created(c, i) == [op |-> "session", archive |-> c.archive, size |-> c.sizes[i],
                  detector |-> detectors[i], disturbed |-> c.disturbed]

\* The second list is read, and the rest of the configuration needs nothing shared.
ReadModelList(t) ==
    /\ Creating(t, "detectors") /\ mutex = NoThread
    /\ \E i \in Indices(call[t].sizes, detectors) :
         /\ IsChoice(i, call[t].sizes, detectors, call[t].level)
         /\ Needed(call[t], detectors[i]) \subseteq ModelsOf[call[t].archive.pkg]
         /\ call' = [call EXCEPT ![t] = Created(call[t], i)]
    /\ UNCHANGED <<published, converter, mutex, overridden>>

\* No level to choose, or a model the archive does not hold.
CreateFails(t) ==
    /\ Creating(t, "detectors") /\ mutex = NoThread
    /\ ~\E i \in Indices(call[t].sizes, detectors) :
            /\ IsChoice(i, call[t].sizes, detectors, call[t].level)
            /\ Needed(call[t], detectors[i]) \subseteq ModelsOf[call[t].archive.pkg]
    /\ call' = [call EXCEPT ![t] = Idle]
    /\ UNCHANGED <<published, converter, mutex, overridden>>

\* HFReleaseInspireFaceSession.
Release(t) ==
    /\ call[t].op = "session"
    /\ call' = [call EXCEPT ![t] = Idle]
    /\ UNCHANGED <<published, converter, mutex, overridden>>

-----------------------------------------------------------------------------
Next ==
    \/ \E t \in Threads, p \in Packages : Load(t, p) \/ Reload(t, p)
    \/ \E t \in Threads : Parse(t) \/ PublishConverter(t) \/ Swap(t)
    \/ \E t \in Threads, level \in PixelLevels, wants \in Optional :
          AcquireArchive(t, level, wants)
    \/ \E t \in Threads : ReadPixelList(t) \/ ReadModelList(t) \/ CreateFails(t) \/ Release(t)
    \/ Unload
    \/ \E engine \in Engines : SwitchLandmarkEngine(engine)
    \/ \E list \in PixelLists : SetFaceDetectPixelList(list)
    \/ \E list \in DetectorLists : SetFaceDetectModelList(list)
    \/ UpdateConverter \/ SetRecommendedCosineThreshold \/ DestroyInstance

Spec == Init /\ [][Next]_vars

-----------------------------------------------------------------------------
Archives == [pkg : Packages, engine : Engines]
Origins == Packages \cup {"default", "client"}
Converters == [config : Origins, threshold : Origins]
States == [archive : Archives \cup {NoArchive}, loaded : BOOLEAN, pixels : Seq(Int),
           detectors : Seq(DetectorNames), converter : Converters]
Disturbances == {"no", "reload", "client"}
Publishes == [op : {"publish"}, pkg : Packages, step : {"parse", "converter", "swap"},
              before : States]
Creations == [op : {"create"}, archive : Archives, level : PixelLevels, wants : Optional,
              step : {"pixels", "detectors"}, sizes : Seq(Int), disturbed : Disturbances]
Sessions == [op : {"session"}, archive : Archives, size : Int, detector : DetectorNames,
             disturbed : Disturbances]

\* Type correctness: what the process-wide object holds and where each call stands.
TypeOK ==
    /\ State \in States
    /\ overridden \subseteq Lists \cup ConverterParts
    /\ mutex \in Threads \cup {NoThread}
    /\ call \in [Threads -> {Idle} \cup Publishes \cup Creations \cup Sessions]

\* Whenever no load is under way, what is published is one generation: while a
\* package is loaded, its archive is published, and each of the two lists and
\* both parts of the converter are that package's, except those a client has
\* set since that package published them.
Coherent ==
    mutex = NoThread /\ loaded =>
        /\ archive # NoArchive
        /\ Outcome[archive.pkg] = "good"
        /\ \A part \in ConverterParts \ overridden : converter[part] = archive.pkg
        /\ "pixels" \notin overridden => pixels = PixelsOf[archive.pkg]
        /\ "detectors" \notin overridden => detectors = DetectorsOf[archive.pkg]

\* A load that returns has published its whole package or left everything as it
\* found it: "A failed reload leaves the current archive and its metadata
\* untouched".  What clients have set of the converter since stays in both cases.
AllOrNothing ==
    [][\A t \in Threads : call[t].op = "publish" /\ call'[t] = Idle =>
          State' \in {Generation(call[t].pkg), call[t].before}]_vars

IsLevelOf(p, size, detector) ==
    \E i \in DOMAIN PixelsOf[p] : PixelsOf[p][i] = size /\ DetectorsOf[p][i] = detector

\* A session whose construction no load and no client's list came between runs a
\* detector of its own archive at the size that archive gives it, whatever
\* unloads and engine switches came between.
QuietSessionsMatch ==
    \A t \in Threads : call[t].op = "session" /\ call[t].disturbed = "no" =>
        IsLevelOf(call[t].archive.pkg, call[t].size, call[t].detector)

\* What face_session.h says of a session, "Pins the exact model archive used to
\* configure this session": a reload does not change what configures it.
DetectorIsOwn ==
    \A t \in Threads : call[t].op = "session" /\ call[t].disturbed # "client" =>
        IsLevelOf(call[t].archive.pkg, call[t].size, call[t].detector)
=============================================================================
