---------------------------- MODULE Launch_proofs ----------------------------
(***************************************************************************)
(* Proofs about the launch, for every set of threads and of packages.      *)
(*                                                                         *)
(* The inductive invariant says who owns the mutex (LockInv), what a load  *)
(* has done so far (PublishInv), that the archive and the lists are one    *)
(* package's (ListsInv), that the converter is too except between the two  *)
(* publications of a load (ConverterInv), and that a creation nothing has  *)
(* disturbed still reads the lists of its own archive (QuietInv).  Lists   *)
(* and parts of the converter that clients have set are excepted one by    *)
(* one.                                                                    *)
(***************************************************************************)
EXTENDS Launch, TLAPS

LockInv == \A t \in Threads : call[t].op = "publish" <=> mutex = t

\* The converter is p's, but for what clients have set.
ConverterIs(p) == \A part \in ConverterParts \ overridden : converter[part] = p

PublishInv ==
    \A t \in Threads : call[t].op = "publish" =>
        /\ call[t].step # "swap" => State = call[t].before
        /\ call[t].step = "swap" =>
             Outcome[call[t].pkg] = "good" /\ ConverterIs(call[t].pkg)

Own(p) == pixels = PixelsOf[p] /\ detectors = DetectorsOf[p]

ListsInv ==
    /\ loaded <=> archive # NoArchive
    /\ loaded => /\ Outcome[archive.pkg] = "good"
                 /\ "pixels" \notin overridden => pixels = PixelsOf[archive.pkg]
                 /\ "detectors" \notin overridden => detectors = DetectorsOf[archive.pkg]

ConverterInv ==
    loaded /\ (\A t \in Threads : call[t].op = "publish" => call[t].step # "swap")
        => ConverterIs(archive.pkg)

QuietInv ==
    \A t \in Threads : call[t].op = "create" /\ call[t].disturbed = "no" =>
        /\ Outcome[call[t].archive.pkg] = "good"
        /\ Own(call[t].archive.pkg)
        /\ call[t].step = "detectors" => call[t].sizes = PixelsOf[call[t].archive.pkg]

Calls == {Idle} \cup Publishes \cup Creations \cup Sessions

\* The kinds of calls are told apart by their op.
LEMMA CallKinds ==
    ASSUME NEW c \in Calls
    PROVE  /\ c.op = "publish" => c \in Publishes
           /\ c.op = "create" => c \in Creations
           /\ c.op = "session" => c \in Sessions
           /\ c.op = "idle" => c = Idle
           /\ c.op \in {"publish", "create", "session", "idle"}
BY DEF Calls, Publishes, Creations, Sessions, Idle

\* Nobody else is publishing while one thread is, and nobody is while the mutex is free.
LEMMA OnePublisher ==
    ASSUME LockInv, mutex \in Threads \cup {NoThread}
    PROVE  /\ mutex = NoThread => \A t \in Threads : call[t].op # "publish"
           /\ \A t \in Threads : call[t].op = "publish" =>
                \A u \in Threads : call[u].op = "publish" => u = t
BY LaunchAssumption DEF LockInv

\* What a disturbance does to each call.
LEMMA DisturbCalls ==
    ASSUME NEW d \in {"reload", "client"}, call \in [Threads -> Calls]
    PROVE  /\ Disturb(d) \in [Threads -> Calls]
           /\ \A t \in Threads : call[t].op # "create" => Disturb(d)[t] = call[t]
           /\ \A t \in Threads : call[t].op = "create" =>
                /\ Disturb(d)[t].op = "create"
                /\ Disturb(d)[t].disturbed # "no"
<1> DEFINE D(c) == IF c.op = "create" /\ c.disturbed # "client"
                   THEN [c EXCEPT !.disturbed = d] ELSE c
<1>1. ASSUME NEW c \in Calls
      PROVE  /\ D(c) \in Calls
             /\ c.op # "create" => D(c) = c
             /\ c.op = "create" => D(c).op = "create" /\ D(c).disturbed # "no"
  <2>1. CASE c.op # "create"
    BY <2>1
  <2>2. CASE c.op = "create"
    <3>1. c \in Creations
      BY <2>2, CallKinds
    <3>2. CASE c.disturbed = "client"
      BY <2>2, <3>2
    <3>3. CASE c.disturbed # "client"
      <4>1. D(c) = [c EXCEPT !.disturbed = d]
        BY <2>2, <3>3
      <4>2. [c EXCEPT !.disturbed = d] \in Creations
        BY <3>1 DEF Creations, Disturbances
      <4>3. [c EXCEPT !.disturbed = d].disturbed = d /\ [c EXCEPT !.disturbed = d].op = "create"
        BY <3>1 DEF Creations
      <4> QED BY <4>1, <4>2, <4>3 DEF Calls
    <3> QED BY <3>2, <3>3
  <2> QED BY <2>1, <2>2
<1>2. Disturb(d) = [s \in Threads |-> D(call[s])]
  BY DEF Disturb
<1> HIDE DEF D
<1>3. \A t \in Threads : call[t] \in Calls /\ Disturb(d)[t] = D(call[t])
  BY <1>2
<1> QED BY <1>1, <1>2, <1>3

\* What an amendment leaves of each call.
LEMMA AmendCalls ==
    ASSUME NEW new \in Converters, call \in [Threads -> Calls]
    PROVE  /\ Amend(new) \in [Threads -> Calls]
           /\ \A t \in Threads :
                /\ Amend(new)[t].op = call[t].op
                /\ call[t].op # "publish" => Amend(new)[t] = call[t]
                /\ call[t].op = "publish" =>
                     /\ Amend(new)[t].step = call[t].step /\ Amend(new)[t].pkg = call[t].pkg
                     /\ Amend(new)[t].before = [call[t].before EXCEPT !.converter = new]
                     /\ Amend(new)[t] # Idle
<1> DEFINE A(c) == IF c.op = "publish" THEN [c EXCEPT !.before.converter = new] ELSE c
<1>1. ASSUME NEW c \in Publishes
      PROVE  /\ [c EXCEPT !.before.converter = new] \in Publishes
             /\ [c EXCEPT !.before.converter = new].op = "publish"
             /\ [c EXCEPT !.before.converter = new].step = c.step
             /\ [c EXCEPT !.before.converter = new].pkg = c.pkg
             /\ [c EXCEPT !.before.converter = new].before = [c.before EXCEPT !.converter = new]
  <2>1. [c.before EXCEPT !.converter = new] \in States
    BY DEF Publishes, States
  <2> QED BY <2>1 DEF Publishes
<1>2. ASSUME NEW c \in Calls
      PROVE  /\ A(c) \in Calls /\ A(c).op = c.op
             /\ c.op # "publish" => A(c) = c
             /\ c.op = "publish" =>
                  /\ A(c).step = c.step /\ A(c).pkg = c.pkg
                  /\ A(c).before = [c.before EXCEPT !.converter = new]
                  /\ A(c) # Idle
  <2>1. CASE c.op = "publish"
    <3>1. c \in Publishes /\ A(c) = [c EXCEPT !.before.converter = new]
      BY <2>1, CallKinds
    <3>2. A(c).op # Idle.op
      BY <1>1, <3>1 DEF Idle
    <3> QED BY <1>1, <2>1, <3>1, <3>2 DEF Calls
  <2>2. CASE c.op # "publish"
    BY <2>2
  <2> QED BY <2>1, <2>2
<1>3. Amend(new) = [s \in Threads |-> A(call[s])]
  BY DEF Amend
<1> HIDE DEF A
<1>4. \A t \in Threads : call[t] \in Calls /\ Amend(new)[t] = A(call[t])
  BY <1>3
<1>5. Amend(new) \in [Threads -> Calls]
  <2>1. \A t \in Threads : A(call[t]) \in Calls
    BY <1>2
  <2> QED BY <1>3, <2>1
<1>6. ASSUME NEW t \in Threads
      PROVE  /\ A(call[t]).op = call[t].op
             /\ call[t].op # "publish" => A(call[t]) = call[t]
             /\ call[t].op = "publish" =>
                  /\ A(call[t]).step = call[t].step /\ A(call[t]).pkg = call[t].pkg
                  /\ A(call[t]).before = [call[t].before EXCEPT !.converter = new]
                  /\ A(call[t]) # Idle
  BY <1>2
<1> QED BY <1>4, <1>5, <1>6

IInv == TypeOK /\ LockInv /\ PublishInv /\ ListsInv /\ ConverterInv /\ QuietInv

LEMMA InitInvariant == Init => IInv
<1> SUFFICES ASSUME Init PROVE IInv OBVIOUS
<1>1. TypeOK
  <2>1. InitialPixels \in Seq(Int) /\ InitialDetectors \in Seq(DetectorNames)
    <3>1. InitialPixels \in Seq(Int)
      BY DEF InitialPixels
    <3>2. InitialDetectors \in Seq(DetectorNames)
      BY LaunchAssumption DEF InitialDetectors
    <3> QED BY <3>1, <3>2
  <2>2. State \in States
    BY <2>1 DEF Init, State, States, Converters, Origins
  <2> QED BY <2>2 DEF Init, TypeOK
<1>2. \A t \in Threads : call[t] = Idle
  BY DEF Init
<1>3. LockInv
  BY <1>2, LaunchAssumption DEF Init, LockInv, Idle
<1>4. PublishInv /\ QuietInv
  BY <1>2 DEF PublishInv, QuietInv, Idle
<1>5. ListsInv /\ ConverterInv
  BY DEF Init, ListsInv, ConverterInv
<1> QED BY <1>1, <1>3, <1>4, <1>5 DEF IInv

\* A step that changes one call only, from one that is not a publication to
\* another that is not.
LEMMA CallStep ==
    ASSUME IInv, NEW t \in Threads, NEW c \in Calls,
           call[t].op # "publish", c.op # "publish",
           c.op = "create" /\ c.disturbed = "no" =>
                /\ Outcome[c.archive.pkg] = "good"
                /\ Own(c.archive.pkg)
                /\ c.step = "detectors" => c.sizes = PixelsOf[c.archive.pkg],
           call' = [call EXCEPT ![t] = c],
           UNCHANGED <<published, converter, mutex, overridden>>
    PROVE  IInv'
<1>1. TypeOK'
  BY DEF IInv, TypeOK, Calls, published, State
<1>2. \A u \in Threads : call'[u] = IF u = t THEN c ELSE call[u]
  BY DEF IInv, TypeOK
<1>3. LockInv'
  BY <1>2 DEF IInv, LockInv
<1>4. PublishInv'
  BY <1>2 DEF IInv, PublishInv, published, State, ConverterIs
<1>5. ListsInv'
  BY DEF IInv, ListsInv, published, Own
<1>6. ConverterInv'
  BY <1>2 DEF IInv, ConverterInv, published, ConverterIs
<1>7. QuietInv'
  BY <1>2 DEF IInv, QuietInv, published, Own
<1> QED BY <1>1, <1>3, <1>4, <1>5, <1>6, <1>7 DEF IInv

LEMMA CallsType == ASSUME TypeOK PROVE call \in [Threads -> Calls]
BY DEF TypeOK, Calls

\* Taking the mutex for a load.
LEMMA BeginStep ==
    ASSUME IInv, NEW t \in Threads, NEW p \in Packages, BeginLoad(t, p)
    PROVE  IInv'
<1> DEFINE c == Publishing(p, "parse")
<1>1. c \in Publishes /\ c.op = "publish" /\ c.step = "parse" /\ c.before = State
  BY DEF Publishing, Publishes, IInv, TypeOK
<1>2. \A u \in Threads : call'[u] = IF u = t THEN c ELSE call[u]
  BY DEF IInv, TypeOK, BeginLoad
<1> HIDE DEF c
<1>3. TypeOK'
  BY <1>1, <1>2 DEF IInv, TypeOK, BeginLoad, published, State, c
<1>4. \A u \in Threads : call[u].op # "publish"
  BY OnePublisher DEF IInv, TypeOK, BeginLoad
<1>5. LockInv'
  BY <1>1, <1>2, <1>4 DEF BeginLoad, LockInv
<1>6. PublishInv'
  BY <1>1, <1>2, <1>4 DEF BeginLoad, PublishInv, published, State, ConverterIs
<1>7. ListsInv'
  BY DEF IInv, ListsInv, published, Own, BeginLoad
<1>8. ConverterInv'
  BY <1>1, <1>2, <1>4 DEF IInv, ConverterInv, published, BeginLoad, ConverterIs
<1>9. QuietInv'
  BY <1>1, <1>2 DEF IInv, QuietInv, published, Own, BeginLoad
<1> QED BY <1>3, <1>5, <1>6, <1>7, <1>8, <1>9 DEF IInv

\* A load that fails.
LEMMA GiveUpStep ==
    ASSUME IInv, NEW t \in Threads, call[t].op = "publish", call[t].step # "swap", GiveUp(t)
    PROVE  IInv'
<1>1. \A u \in Threads : call'[u] = IF u = t THEN Idle ELSE call[u]
  BY DEF IInv, TypeOK, GiveUp
<1>2. Idle.op = "idle"
  BY DEF Idle
<1>3. \A u \in Threads : call'[u].op # "publish"
  BY <1>1, <1>2, OnePublisher DEF IInv, TypeOK
<1>4. TypeOK'
  BY DEF IInv, TypeOK, GiveUp, published, State
<1>5. LockInv' /\ PublishInv'
  BY <1>3, LaunchAssumption DEF LockInv, PublishInv, GiveUp
<1>6. ListsInv'
  BY DEF IInv, ListsInv, published, Own, GiveUp
<1>7. \A u \in Threads : call[u].op = "publish" => u = t
  BY OnePublisher DEF IInv, TypeOK
<1>8. ConverterInv'
  BY <1>7 DEF IInv, ConverterInv, published, GiveUp, ConverterIs
<1>9. QuietInv'
  BY <1>1, <1>2 DEF IInv, QuietInv, published, Own, GiveUp
<1> QED BY <1>4, <1>5, <1>6, <1>8, <1>9 DEF IInv

\* The package has been parsed.
LEMMA ParseStep ==
    ASSUME IInv, NEW t \in Threads, Parse(t)
    PROVE  IInv'
<1>1. CASE GiveUp(t)
  BY <1>1, GiveUpStep DEF Parse, At
<1>2. CASE Goto(t, "converter") /\ UNCHANGED <<published, converter, mutex, overridden>>
  <2>1. call[t] \in Publishes /\ call[t].step = "parse"
    BY CallsType, CallKinds DEF IInv, Parse, At
  <2>2. /\ [call[t] EXCEPT !.step = "converter"] \in Publishes
        /\ [call[t] EXCEPT !.step = "converter"].op = "publish"
        /\ [call[t] EXCEPT !.step = "converter"].step = "converter"
        /\ [call[t] EXCEPT !.step = "converter"].before = call[t].before
    BY <2>1 DEF Publishes
  <2>3. \A u \in Threads : call'[u] = IF u = t THEN [call[t] EXCEPT !.step = "converter"]
                                                ELSE call[u]
    BY <1>2 DEF IInv, TypeOK, Goto
  <2>4. TypeOK'
    BY <1>2, <2>2 DEF IInv, TypeOK, Goto, published, State
  <2>5. call[t].op = "publish"
    BY <2>1 DEF Publishes
  <2>6. LockInv'
    BY <1>2, <2>2, <2>3, <2>5 DEF IInv, LockInv
  <2>7. PublishInv'
    <3>1. State' = State /\ \A p : ConverterIs(p)' <=> ConverterIs(p)
      BY <1>2 DEF published, State, ConverterIs
    <3> QED BY <2>1, <2>2, <2>3, <2>5, <3>1 DEF IInv, PublishInv
  <2>8. ListsInv'
    BY <1>2 DEF IInv, ListsInv, published, Own
  <2>9. ConverterInv'
    BY <1>2, <2>1, <2>2, <2>3, <2>5 DEF IInv, ConverterInv, published, ConverterIs
  <2>10. QuietInv'
    <3>1. \A u \in Threads : call'[u].op = "create" => call'[u] = call[u]
      BY <2>2, <2>3
    <3>2. UNCHANGED <<pixels, detectors>>
      BY <1>2 DEF published
    <3> QED BY <3>1, <3>2 DEF IInv, QuietInv, Own
  <2> QED BY <2>4, <2>6, <2>7, <2>8, <2>9, <2>10 DEF IInv
<1> QED BY <1>1, <1>2 DEF Parse

\* The converter takes the package's configuration and threshold.
LEMMA ConverterStep ==
    ASSUME IInv, NEW t \in Threads, PublishConverter(t)
    PROVE  IInv'
<1>1. CASE GiveUp(t)
  BY <1>1, GiveUpStep DEF PublishConverter, At
<1>2. CASE /\ Outcome[call[t].pkg] = "good"
           /\ converter' = [config |-> call[t].pkg, threshold |-> call[t].pkg]
           /\ overridden' = overridden \ ConverterParts
           /\ Goto(t, "swap")
           /\ UNCHANGED <<published, mutex>>
  <2>1. call[t] \in Publishes /\ call[t].op = "publish" /\ call[t].pkg \in Packages
    BY CallsType, CallKinds DEF IInv, PublishConverter, At, Publishes
  <2>2. /\ [call[t] EXCEPT !.step = "swap"] \in Publishes
        /\ [call[t] EXCEPT !.step = "swap"].op = "publish"
        /\ [call[t] EXCEPT !.step = "swap"].step = "swap"
        /\ [call[t] EXCEPT !.step = "swap"].pkg = call[t].pkg
    BY <2>1 DEF Publishes
  <2>3. \A u \in Threads : call'[u] = IF u = t THEN [call[t] EXCEPT !.step = "swap"]
                                                ELSE call[u]
    BY <1>2 DEF IInv, TypeOK, Goto
  <2>4. State' \in States
    BY <1>2, <2>1 DEF IInv, TypeOK, published, State, States, Converters, Origins
  <2>5. TypeOK'
    BY <1>2, <2>1, <2>2, <2>4 DEF IInv, TypeOK, Goto
  <2>6. \A u \in Threads : call[u].op = "publish" => u = t
    BY <2>1, OnePublisher DEF IInv, TypeOK
  <2>7. LockInv'
    BY <1>2, <2>1, <2>2, <2>3 DEF IInv, LockInv
  <2>8. PublishInv'
    <3>1. ConverterIs(call[t].pkg)'
      <4>1. call'[t].pkg = call[t].pkg
        BY <2>2, <2>3
      <4>2. \A part \in ConverterParts : converter'[part] = call[t].pkg
        BY <1>2 DEF ConverterParts
      <4> QED BY <4>1, <4>2 DEF ConverterIs
    <3>2. Outcome[call'[t].pkg] = "good" /\ call'[t].step = "swap"
      BY <1>2, <2>2, <2>3
    <3>3. \A u \in Threads : call'[u].op = "publish" => u = t
      BY <2>3, <2>6
    <3> QED BY <3>1, <3>2, <3>3 DEF PublishInv, ConverterIs
  <2>9. ListsInv'
    BY <1>2 DEF IInv, ListsInv, published, ConverterParts
  <2>10. ConverterInv'
    BY <2>2, <2>3 DEF ConverterInv
  <2>11. pixels' = pixels /\ detectors' = detectors
    BY <1>2 DEF published
  <2>12. \A u \in Threads : call'[u].op = "create" => call'[u] = call[u]
    BY <2>2, <2>3
  <2>13. QuietInv'
    BY <2>11, <2>12 DEF IInv, QuietInv, Own
  <2> QED BY <2>5, <2>7, <2>8, <2>9, <2>10, <2>13 DEF IInv
<1> QED BY <1>1, <1>2 DEF PublishConverter

\* The three swaps.
LEMMA SwapStep ==
    ASSUME IInv, NEW t \in Threads, Swap(t)
    PROVE  IInv'
<1>1. /\ call[t] \in Publishes /\ call[t].op = "publish" /\ call[t].pkg \in Packages
      /\ call[t].step = "swap"
  BY CallsType, CallKinds DEF IInv, Swap, At, Publishes
<1>2. Outcome[call[t].pkg] = "good" /\ ConverterIs(call[t].pkg)
  BY <1>1 DEF IInv, PublishInv
<1>3. PixelsOf[call[t].pkg] \in Seq(Int) /\ DetectorsOf[call[t].pkg] \in Seq(DetectorNames)
  BY <1>1, <1>2, LaunchAssumption
<1>4. Archive(call[t].pkg, DefaultEngine) \in Archives
      /\ Archive(call[t].pkg, DefaultEngine).pkg = call[t].pkg
  BY <1>1 DEF Archive, Archives, Engines
<1>5. Disturb("reload") \in [Threads -> Calls]
  BY CallsType, DisturbCalls DEF IInv
<1>6. \A u \in Threads : call'[u] = IF u = t THEN Idle ELSE Disturb("reload")[u]
  BY <1>5 DEF Swap
<1>7. Idle.op = "idle"
  BY DEF Idle
<1>8. \A u \in Threads : call'[u].op # "publish"
  <2> TAKE u \in Threads
  <2>1. CASE u = t
    BY <1>6, <1>7, <2>1
  <2>2. CASE u # t
    <3>1. call[u].op # "publish"
      BY <1>1, <2>2, OnePublisher DEF IInv, TypeOK
    <3>2. Disturb("reload")[u].op # "publish"
      BY <3>1, CallsType, DisturbCalls DEF IInv
    <3> QED BY <3>2, <1>6, <2>2
  <2> QED BY <2>1, <2>2
<1>9. \A u \in Threads : call'[u].op = "create" => call'[u].disturbed # "no"
  <2>1. ASSUME NEW u \in Threads, call'[u].op = "create" PROVE call'[u].disturbed # "no"
    <3>1. u # t /\ call'[u] = Disturb("reload")[u]
      BY <2>1, <1>6, <1>7
    <3>2. call[u].op = "create"
      BY <3>1, <2>1, CallsType, DisturbCalls DEF IInv
    <3> QED BY <3>1, <3>2, CallsType, DisturbCalls DEF IInv
  <2> QED BY <2>1
<1>10. State' \in States
  BY <1>3, <1>4 DEF Swap, IInv, TypeOK, State, States
<1>11. call' \in [Threads -> Calls]
  BY <1>5 DEF Swap, Calls
<1>12. TypeOK'
  BY <1>10, <1>11 DEF IInv, TypeOK, Swap, Calls
<1>13. LockInv' /\ PublishInv'
  BY <1>8, LaunchAssumption DEF LockInv, PublishInv, Swap
<1>14. archive' # NoArchive
  BY <1>1, <1>4, LaunchAssumption DEF Swap, NoArchive
<1>15. ListsInv'
  BY <1>2, <1>4, <1>14 DEF ListsInv, Swap
<1>16. ConverterInv'
  <2>1. UNCHANGED converter /\ ConverterParts \ overridden' = ConverterParts \ overridden
    BY DEF Swap, Lists, ConverterParts
  <2>2. archive'.pkg = call[t].pkg
    BY <1>4 DEF Swap
  <2> QED BY <1>2, <2>1, <2>2 DEF ConverterInv, ConverterIs
<1>17. QuietInv'
  BY <1>9 DEF QuietInv
<1> QED BY <1>12, <1>13, <1>15, <1>16, <1>17 DEF IInv

\* Unloading and switching the engine leave every call as it is.
LEMMA ArchiveStep ==
    ASSUME IInv, Unload \/ \E engine \in Engines : SwitchLandmarkEngine(engine)
    PROVE  IInv'
<1>1. mutex = NoThread /\ \A u \in Threads : call[u].op # "publish"
  BY OnePublisher DEF IInv, TypeOK, Unload, SwitchLandmarkEngine
<1>2. UNCHANGED <<pixels, detectors, converter, mutex, call, overridden>>
  BY DEF Unload, SwitchLandmarkEngine
<1>3. State' \in States
  <2>1. CASE Unload
    BY <1>2, <2>1 DEF Unload, IInv, TypeOK, State, States
  <2>2. ASSUME NEW engine \in Engines, SwitchLandmarkEngine(engine) PROVE State' \in States
    <3>1. archive \in Archives
      BY <2>2 DEF SwitchLandmarkEngine, IInv, TypeOK, State, States
    <3>2. archive' \in Archives
      BY <2>2, <3>1 DEF SwitchLandmarkEngine, Archives, Archive
    <3> QED BY <1>2, <2>2, <3>2 DEF SwitchLandmarkEngine, IInv, TypeOK, State, States
  <2> QED BY <2>1, <2>2
<1>4. TypeOK'
  BY <1>2, <1>3 DEF IInv, TypeOK
<1>5. LockInv' /\ PublishInv'
  BY <1>1, <1>2 DEF IInv, LockInv, PublishInv
<1>6. QuietInv'
  BY <1>2 DEF IInv, QuietInv, Own
<1>7. ListsInv' /\ ConverterInv'
  <2>1. CASE Unload
    BY <2>1 DEF Unload, ListsInv, ConverterInv
  <2>2. ASSUME NEW engine \in Engines, SwitchLandmarkEngine(engine)
        PROVE  ListsInv' /\ ConverterInv'
    <3>1. archive \in Archives
      BY <2>2 DEF SwitchLandmarkEngine, IInv, TypeOK, State, States
    <3>2. archive'.pkg = archive.pkg /\ archive' \in Archives
      BY <2>2, <3>1 DEF SwitchLandmarkEngine, Archive, Archives
    <3>3. archive' # NoArchive
      BY <3>2, LaunchAssumption DEF Archives, NoArchive
    <3> QED BY <1>1, <1>2, <2>2, <3>2, <3>3 DEF SwitchLandmarkEngine, IInv, ListsInv,
                                                ConverterInv, ConverterIs
  <2> QED BY <2>1, <2>2
<1> QED BY <1>4, <1>5, <1>6, <1>7 DEF IInv

\* A client sets one of the lists.
LEMMA ListStep ==
    ASSUME IInv,
           \/ \E list \in PixelLists : SetFaceDetectPixelList(list)
           \/ \E list \in DetectorLists : SetFaceDetectModelList(list)
    PROVE  IInv'
<1>1. mutex = NoThread /\ \A u \in Threads : call[u].op # "publish"
  BY OnePublisher DEF IInv, TypeOK, SetFaceDetectPixelList, SetFaceDetectModelList
<1>2. /\ UNCHANGED <<archive, loaded, converter, mutex>>
      /\ \/ overridden' = overridden \cup {"pixels"} /\ UNCHANGED detectors
         \/ overridden' = overridden \cup {"detectors"} /\ UNCHANGED pixels
      /\ call' = Disturb("client")
      /\ pixels' \in Seq(Int) /\ detectors' \in Seq(DetectorNames)
  BY LaunchAssumption DEF SetFaceDetectPixelList, SetFaceDetectModelList, IInv, TypeOK, State,
                          States
<1>3. /\ call' \in [Threads -> Calls]
      /\ \A u \in Threads : call'[u].op # "publish"
      /\ \A u \in Threads : call'[u].op = "create" => call'[u].disturbed # "no"
  <2>1. call \in [Threads -> Calls]
    BY CallsType DEF IInv
  <2>2. \A u \in Threads : call'[u].op # "publish"
    BY <1>1, <1>2, <2>1, DisturbCalls
  <2>3. \A u \in Threads : call'[u].op = "create" => call'[u].disturbed # "no"
    BY <1>2, <2>1, DisturbCalls
  <2> QED BY <1>2, <2>1, <2>2, <2>3, DisturbCalls
<1>4. State' \in States
  BY <1>2 DEF IInv, TypeOK, State, States
<1>5. TypeOK'
  BY <1>2, <1>3, <1>4 DEF IInv, TypeOK, Calls, Lists
<1>6. LockInv' /\ PublishInv'
  BY <1>1, <1>2, <1>3, LaunchAssumption DEF LockInv, PublishInv
<1>7. QuietInv'
  BY <1>3 DEF QuietInv
<1>8. ListsInv'
  BY <1>2 DEF IInv, ListsInv
<1>9. ConverterInv'
  <2>1. ConverterParts \ overridden' = ConverterParts \ overridden
    BY <1>2 DEF ConverterParts
  <2> QED BY <1>1, <1>2, <2>1 DEF IInv, ConverterInv, ConverterIs
<1> QED BY <1>5, <1>6, <1>7, <1>8, <1>9 DEF IInv

\* Creating a session.
LEMMA CreateStep ==
    ASSUME IInv, NEW t \in Threads,
           \/ \E level \in PixelLevels, wants \in Optional : AcquireArchive(t, level, wants)
           \/ ReadPixelList(t) \/ ReadModelList(t) \/ CreateFails(t) \/ Release(t)
    PROVE  IInv'
<1>1. call \in [Threads -> Calls] /\ Idle \in Calls /\ Idle.op = "idle"
  BY CallsType DEF IInv, Calls, Idle
<1>2. ASSUME NEW level \in PixelLevels, NEW wants \in Optional,
             AcquireArchive(t, level, wants)
      PROVE  IInv'
  <2> DEFINE c == [op |-> "create", archive |-> archive, level |-> level, wants |-> wants,
                   step |-> "pixels", sizes |-> <<>>,
                   disturbed |-> IF overridden \cap Lists # {} THEN "client" ELSE "no"]
  <2>1. archive \in Archives
    BY <1>2 DEF AcquireArchive, IInv, TypeOK, State, States
  <2>2. c \in Creations
    BY <2>1 DEF Creations, Disturbances
  <2>3. c.disturbed = "no" => Outcome[archive.pkg] = "good" /\ Own(archive.pkg)
    BY <1>2 DEF AcquireArchive, IInv, ListsInv, Lists, Own
  <2>4. c.op = "create" /\ c.step = "pixels" /\ c.archive = archive /\ c \in Calls
    BY <2>2 DEF Calls
  <2>5. call[t].op # "publish" /\ call' = [call EXCEPT ![t] = c]
        /\ UNCHANGED <<published, converter, mutex, overridden>>
    BY <1>2, <1>1 DEF AcquireArchive
  <2> HIDE DEF c
  <2> QED BY <2>3, <2>4, <2>5, CallStep
<1>3. CASE ReadPixelList(t)
  <2> DEFINE c == [call[t] EXCEPT !.sizes = pixels, !.step = "detectors"]
  <2>1. call[t] \in Creations
    BY <1>1, <1>3, CallKinds DEF ReadPixelList, Creating
  <2>2. pixels \in Seq(Int)
    BY DEF IInv, TypeOK, State, States
  <2>3. /\ c \in Creations /\ c.op = "create" /\ c.sizes = pixels
        /\ c.archive = call[t].archive /\ c.disturbed = call[t].disturbed
    BY <2>1, <2>2 DEF Creations
  <2>4. c \in Calls
    BY <2>3 DEF Calls
  <2>5. call[t].op = "create" /\ call' = [call EXCEPT ![t] = c]
        /\ UNCHANGED <<published, converter, mutex, overridden>>
    BY <1>1, <1>3 DEF ReadPixelList, Creating
  <2> HIDE DEF c
  <2>6. c.disturbed = "no" => /\ Outcome[c.archive.pkg] = "good" /\ Own(c.archive.pkg)
                              /\ c.sizes = PixelsOf[c.archive.pkg]
    BY <2>3, <2>5 DEF IInv, QuietInv, Own
  <2> QED BY <2>3, <2>4, <2>5, <2>6, CallStep
<1>4. CASE ReadModelList(t)
  <2>1. PICK i \in Indices(call[t].sizes, detectors) :
             call' = [call EXCEPT ![t] = Created(call[t], i)]
    BY <1>4 DEF ReadModelList
  <2>2. call[t] \in Creations /\ call[t].op = "create"
    BY <1>1, <1>4, CallKinds DEF ReadModelList, Creating, Creations
  <2>3. /\ call[t].sizes \in Seq(Int) /\ detectors \in Seq(DetectorNames)
        /\ call[t].archive \in Archives /\ call[t].disturbed \in Disturbances
    BY <2>2 DEF Creations, IInv, TypeOK, State, States
  <2>4. i \in 1..Len(call[t].sizes) /\ i \in 1..Len(detectors)
    BY <2>1, <2>3 DEF Indices
  <2>5. call[t].sizes[i] \in Int /\ detectors[i] \in DetectorNames
    BY <2>3, <2>4
  <2>6. Created(call[t], i) \in Sessions /\ Created(call[t], i).op = "session"
    BY <2>3, <2>5 DEF Created, Sessions
  <2>7. Created(call[t], i) \in Calls
    BY <2>6 DEF Calls
  <2>8. UNCHANGED <<published, converter, mutex, overridden>>
    BY <1>4 DEF ReadModelList
  <2> QED BY <2>1, <2>2, <2>6, <2>7, <2>8, CallStep
<1>5. CASE CreateFails(t) \/ Release(t)
  <2>1. call[t].op # "publish" /\ call' = [call EXCEPT ![t] = Idle]
        /\ UNCHANGED <<published, converter, mutex, overridden>>
    BY <1>5 DEF CreateFails, Release, Creating
  <2> QED BY <1>1, <2>1, CallStep
<1> QED BY <1>2, <1>3, <1>4, <1>5

\* What clients do to the converter.
ClientConverter == UpdateConverter \/ SetRecommendedCosineThreshold \/ DestroyInstance

\* A client's call of the converter excepts the parts it changes.
LEMMA ClientCalls ==
    ASSUME IInv, ClientConverter
    PROVE  \E parts \in SUBSET ConverterParts, new \in Converters :
             /\ ClientSets(parts, new)
             /\ \A part \in ConverterParts \ parts : new[part] = converter[part]
<1>1. converter \in Converters
  BY DEF IInv, TypeOK, State, States
<1>2. /\ [converter EXCEPT !.config = "client"] \in Converters
      /\ [converter EXCEPT !.threshold = "client"] \in Converters
      /\ [converter EXCEPT !.config = "client"]["threshold"] = converter["threshold"]
      /\ [converter EXCEPT !.threshold = "client"]["config"] = converter["config"]
      /\ [config |-> "default", threshold |-> "default"] \in Converters
  BY <1>1 DEF Converters, Origins
<1>3. CASE UpdateConverter
  <2>1. \A part \in ConverterParts \ {"config"} :
           [converter EXCEPT !.config = "client"][part] = converter[part]
    BY <1>2 DEF ConverterParts
  <2>2. {"config"} \in SUBSET ConverterParts
    BY DEF ConverterParts
  <2> QED BY <1>2, <1>3, <2>1, <2>2 DEF UpdateConverter
<1>4. CASE SetRecommendedCosineThreshold
  <2>1. \A part \in ConverterParts \ {"threshold"} :
           [converter EXCEPT !.threshold = "client"][part] = converter[part]
    BY <1>2 DEF ConverterParts
  <2>2. {"threshold"} \in SUBSET ConverterParts
    BY DEF ConverterParts
  <2> QED BY <1>2, <1>4, <2>1, <2>2 DEF SetRecommendedCosineThreshold
<1>5. CASE DestroyInstance
  BY <1>2, <1>5 DEF DestroyInstance
<1> QED BY <1>3, <1>4, <1>5 DEF ClientConverter

\* A client sets parts of the converter, or makes it start again.
LEMMA ClientStep ==
    ASSUME IInv, ClientConverter
    PROVE  IInv'
<1>1. PICK parts \in SUBSET ConverterParts, new \in Converters :
         /\ ClientSets(parts, new)
         /\ \A part \in ConverterParts \ parts : new[part] = converter[part]
  BY ClientCalls
<1>2. /\ converter' = new /\ overridden' = overridden \cup parts /\ call' = Amend(new)
      /\ UNCHANGED <<archive, loaded, pixels, detectors, mutex>>
  BY <1>1 DEF ClientSets, published
<1>3. call \in [Threads -> Calls]
  BY CallsType DEF IInv
<1>4. /\ call' \in [Threads -> Calls]
      /\ \A t \in Threads :
           /\ call'[t].op = call[t].op
           /\ call[t].op # "publish" => call'[t] = call[t]
           /\ call[t].op = "publish" =>
                /\ call'[t].step = call[t].step /\ call'[t].pkg = call[t].pkg
                /\ call'[t].before = [call[t].before EXCEPT !.converter = new]
  BY <1>2, <1>3, AmendCalls
<1>5. State' = [State EXCEPT !.converter = new] /\ State' \in States
  <2>1. State' = [State EXCEPT !.converter = new]
    BY <1>2 DEF State
  <2>2. State' \in States
    BY <1>2 DEF State, States, IInv, TypeOK
  <2> QED BY <2>1, <2>2
<1>6. TypeOK'
  BY <1>2, <1>4, <1>5 DEF IInv, TypeOK, Calls
<1>7. \A p : ConverterIs(p) => ConverterIs(p)'
  BY <1>1, <1>2 DEF ConverterIs
<1>8. LockInv'
  BY <1>2, <1>4 DEF IInv, LockInv
<1>9. PublishInv'
  <2> SUFFICES ASSUME NEW t \in Threads, call[t].op = "publish"
               PROVE  /\ call'[t].step # "swap" => State' = call'[t].before
                      /\ call'[t].step = "swap" =>
                           Outcome[call'[t].pkg] = "good" /\ ConverterIs(call[t].pkg)'
    BY <1>4 DEF PublishInv
  <2>1. CASE call[t].step # "swap"
    BY <1>4, <1>5, <2>1 DEF IInv, PublishInv
  <2>2. CASE call[t].step = "swap"
    <3>1. Outcome[call[t].pkg] = "good" /\ ConverterIs(call[t].pkg) /\ call'[t].pkg = call[t].pkg
      BY <1>4, <2>2 DEF IInv, PublishInv
    <3>2. ConverterIs(call[t].pkg)'
      BY <1>1, <1>2, <3>1 DEF ConverterIs
    <3> QED BY <1>4, <2>2, <3>1, <3>2
  <2> QED BY <2>1, <2>2
<1>10. ListsInv'
  <2>1. \A list \in Lists : list \in overridden' <=> list \in overridden
    BY <1>1, <1>2 DEF Lists, ConverterParts
  <2> QED BY <1>2, <2>1 DEF IInv, ListsInv, Lists
<1>11. ConverterInv'
  BY <1>2, <1>4, <1>7 DEF IInv, ConverterInv
<1>12. QuietInv'
  <2>1. \A t \in Threads : call'[t].op = "create" => call'[t] = call[t]
    BY <1>4
  <2> QED BY <1>2, <2>1 DEF IInv, QuietInv, Own
<1> QED BY <1>6, <1>8, <1>9, <1>10, <1>11, <1>12 DEF IInv

\* Every step keeps the invariant.
LEMMA StepInvariant == IInv /\ [Next]_vars => IInv'
<1> SUFFICES ASSUME IInv, [Next]_vars PROVE IInv'
  OBVIOUS
<1>1. ASSUME NEW t \in Threads, NEW p \in Packages, Load(t, p) \/ Reload(t, p) PROVE IInv'
  BY <1>1, BeginStep DEF Load, Reload
<1>2. ASSUME NEW t \in Threads, Parse(t) \/ PublishConverter(t) \/ Swap(t) PROVE IInv'
  BY <1>2, ParseStep, ConverterStep, SwapStep
<1>3. ASSUME NEW t \in Threads,
             \/ \E level \in PixelLevels, wants \in Optional : AcquireArchive(t, level, wants)
             \/ ReadPixelList(t) \/ ReadModelList(t) \/ CreateFails(t) \/ Release(t)
      PROVE  IInv'
  BY <1>3, CreateStep
<1>4. CASE Unload \/ \E engine \in Engines : SwitchLandmarkEngine(engine)
  BY <1>4, ArchiveStep
<1>5. CASE \/ \E list \in PixelLists : SetFaceDetectPixelList(list)
           \/ \E list \in DetectorLists : SetFaceDetectModelList(list)
  BY <1>5, ListStep
<1>6. CASE ClientConverter
  BY <1>6, ClientStep
<1>7. CASE UNCHANGED vars
  BY <1>7 DEF vars, published, State, IInv, TypeOK, LockInv, PublishInv, ListsInv, ConverterInv,
              QuietInv, Own, ConverterIs
<1> QED BY <1>1, <1>2, <1>3, <1>4, <1>5, <1>6, <1>7 DEF Next, ClientConverter

LEMMA Invariant == Spec => []IInv
<1>1. Init => IInv
  BY InitInvariant
<1>2. IInv /\ [Next]_vars => IInv'
  BY StepInvariant
<1> QED BY <1>1, <1>2, PTL DEF Spec

-----------------------------------------------------------------------------
\* What thread t itself does.
OwnStep(t) ==
    \/ \E p \in Packages : BeginLoad(t, p)
    \/ Parse(t) \/ PublishConverter(t) \/ Swap(t)
    \/ \E level \in PixelLevels, wants \in Optional : AcquireArchive(t, level, wants)
    \/ ReadPixelList(t) \/ ReadModelList(t) \/ CreateFails(t) \/ Release(t)

\* A call changes by its own thread's step, is disturbed, or is amended.
LEMMA ChangedCalls ==
    ASSUME IInv, [Next]_vars, NEW t \in Threads, call'[t] # call[t]
    PROVE  \/ OwnStep(t)
           \/ \E new \in Converters : call[t].op = "publish" /\ call'[t] = Amend(new)[t]
           \/ \E u \in Threads : Swap(u) /\ call'[t] = Disturb("reload")[t]
           \/ call'[t] = Disturb("client")[t]
<1>1. call \in [Threads -> Calls]
  BY CallsType DEF IInv
<1>2. ASSUME NEW u \in Threads, u # t, OwnStep(u)
      PROVE  Swap(u) /\ call'[t] = Disturb("reload")[t]
  <2>1. CASE Swap(u)
    <3>1. Disturb("reload") \in [Threads -> Calls]
      BY <1>1, DisturbCalls
    <3> QED BY <1>2, <2>1, <3>1 DEF Swap
  <2>2. CASE ~Swap(u)
    BY <1>1, <1>2, <2>2 DEF OwnStep, BeginLoad, Parse, PublishConverter, Goto, GiveUp,
                       AcquireArchive, ReadPixelList, ReadModelList, CreateFails, Release
  <2> QED BY <2>1, <2>2
<1>3. \/ \E u \in Threads : OwnStep(u)
      \/ call' = Disturb("client")
      \/ ClientConverter
  BY DEF Next, vars, Unload, SwitchLandmarkEngine, SetFaceDetectPixelList,
         SetFaceDetectModelList, ClientConverter, OwnStep, Load, Reload
<1>4. CASE ClientConverter
  <2>1. PICK new \in Converters : call' = Amend(new)
    BY <1>4, ClientCalls DEF ClientSets
  <2> QED BY <1>1, <2>1, AmendCalls
<1> QED BY <1>2, <1>3, <1>4

\* What another thread's step leaves of a call that is not a creation, and that
\* a client's call of the converter does not amend.
LEMMA OtherCalls ==
    ASSUME IInv, [Next]_vars, NEW t \in Threads, call[t].op # "create", call'[t] # call[t],
           \A new \in Converters : call'[t] # Amend(new)[t]
    PROVE  \/ \E p \in Packages : BeginLoad(t, p)
           \/ Parse(t) \/ PublishConverter(t) \/ Swap(t) \/ Release(t)
           \/ \E level \in PixelLevels, wants \in Optional : AcquireArchive(t, level, wants)
<1>1. \A d \in {"reload", "client"} : Disturb(d)[t] = call[t]
  BY CallsType, DisturbCalls DEF IInv
<1>2. OwnStep(t)
  BY <1>1, ChangedCalls
<1>3. ~ReadPixelList(t) /\ ~ReadModelList(t) /\ ~CreateFails(t)
  BY DEF ReadPixelList, ReadModelList, CreateFails, Creating
<1> QED BY <1>2, <1>3 DEF OwnStep

\* A publication ends by failing before the swap, or by the swap.
LEMMA PublishersReturn ==
    ASSUME IInv, [Next]_vars, NEW t \in Threads, call[t].op = "publish", call'[t] = Idle
    PROVE  (GiveUp(t) /\ call[t].step # "swap") \/ Swap(t)
<1>1. call[t] # Idle /\ call[t] \in Publishes /\ call \in [Threads -> Calls]
  BY CallsType, CallKinds DEF Idle, IInv
<1>2. \A step \in {"converter", "swap"} : [call[t] EXCEPT !.step = step] # Idle
  <2> SUFFICES ASSUME NEW step \in {"converter", "swap"}
               PROVE  [call[t] EXCEPT !.step = step].op # Idle.op
    OBVIOUS
  <2> QED BY <1>1 DEF Publishes, Idle
<1>3. ~Goto(t, "converter") /\ ~Goto(t, "swap")
  BY <1>1, <1>2 DEF Goto
<1>4. \/ \E p \in Packages : BeginLoad(t, p)
      \/ Parse(t) \/ PublishConverter(t) \/ Swap(t) \/ Release(t)
      \/ \E level \in PixelLevels, wants \in Optional : AcquireArchive(t, level, wants)
  BY <1>1, AmendCalls, OtherCalls
<1>5. ~Release(t) /\ (\A p \in Packages : ~BeginLoad(t, p))
      /\ \A level \in PixelLevels, wants \in Optional : ~AcquireArchive(t, level, wants)
  BY <1>1 DEF Release, BeginLoad, AcquireArchive
<1>6. Parse(t) \/ PublishConverter(t) => GiveUp(t) /\ call[t].step # "swap"
  BY <1>3 DEF Parse, PublishConverter, At
<1> QED BY <1>4, <1>5, <1>6

\* A call that holds another session than before has just read the second list.
LEMMA SessionsAreRead ==
    ASSUME IInv, [Next]_vars, NEW t \in Threads, call'[t].op = "session", call'[t] # call[t]
    PROVE  ReadModelList(t)
<1>1. call \in [Threads -> Calls]
  BY CallsType DEF IInv
<1>2. /\ \A d \in {"reload", "client"} : call'[t] # Disturb(d)[t]
      /\ \A new \in Converters : call[t].op = "publish" => call'[t] # Amend(new)[t]
  <2>1. \A d \in {"reload", "client"} : call'[t] # Disturb(d)[t]
    BY <1>1, DisturbCalls
  <2>2. \A new \in Converters : Amend(new)[t].op = call[t].op
    BY <1>1, AmendCalls
  <2> QED BY <2>1, <2>2
<1>3. OwnStep(t)
  BY <1>2, ChangedCalls
<1>4. ASSUME Goto(t, "converter") \/ Goto(t, "swap"), call[t] \in Publishes PROVE FALSE
  BY <1>1, <1>4 DEF Goto, Publishes
<1>5. ~GiveUp(t) /\ ~CreateFails(t) /\ ~Release(t) /\ ~Swap(t)
  <2>1. Disturb("reload") \in [Threads -> Calls]
    BY <1>1, DisturbCalls
  <2> QED BY <1>1, <2>1 DEF GiveUp, CreateFails, Release, Swap, Idle
<1>6. ~Parse(t) /\ ~PublishConverter(t)
  BY <1>1, <1>4, <1>5, CallKinds DEF Parse, PublishConverter, At
<1>7. /\ \A p \in Packages : ~BeginLoad(t, p)
      /\ \A level \in PixelLevels, wants \in Optional : ~AcquireArchive(t, level, wants)
  BY <1>1 DEF BeginLoad, Publishing, AcquireArchive
<1>8. ~ReadPixelList(t)
  <2> SUFFICES ASSUME ReadPixelList(t) PROVE FALSE
    OBVIOUS
  <2>1. call[t] \in Creations
    BY <1>1, CallKinds DEF ReadPixelList, Creating
  <2> QED BY <1>1, <2>1 DEF ReadPixelList, Creations
<1> QED BY <1>3, <1>5, <1>6, <1>7, <1>8 DEF OwnStep

-----------------------------------------------------------------------------
\* Whatever the threads do, the published pieces and the calls keep their types.
THEOREM LaunchTypeOK == Spec => []TypeOK
<1>1. IInv => TypeOK
  BY DEF IInv
<1> QED BY <1>1, Invariant, PTL

\* Whenever no load is under way, archive, lists and both parts of the converter
\* are one package's, but for the lists and the parts that a client has set
\* since that package published them.
THEOREM LaunchCoherent == Spec => []Coherent
<1>1. IInv => Coherent
  <2> SUFFICES ASSUME IInv, mutex = NoThread, loaded
               PROVE  /\ archive # NoArchive
                      /\ Outcome[archive.pkg] = "good"
                      /\ ConverterIs(archive.pkg)
                      /\ "pixels" \notin overridden => pixels = PixelsOf[archive.pkg]
                      /\ "detectors" \notin overridden => detectors = DetectorsOf[archive.pkg]
    BY DEF Coherent, ConverterIs
  <2>1. \A t \in Threads : call[t].op # "publish"
    BY OnePublisher DEF IInv, TypeOK
  <2> QED BY <2>1 DEF IInv, ListsInv, ConverterInv
<1> QED BY <1>1, Invariant, PTL

\* A session whose construction nothing came between runs its own detector at its own size.
THEOREM LaunchQuietSessionsMatch == Spec => []QuietSessionsMatch
<1> DEFINE Matches(c) == IsLevelOf(c.archive.pkg, c.size, c.detector)
<1>1. Init => QuietSessionsMatch
  BY DEF Init, QuietSessionsMatch, Idle
<1>2. IInv /\ QuietSessionsMatch /\ [Next]_vars => QuietSessionsMatch'
  <2> SUFFICES ASSUME IInv, QuietSessionsMatch, [Next]_vars, NEW t \in Threads,
                      call'[t].op = "session", call'[t].disturbed = "no"
               PROVE  Matches(call'[t])
    BY DEF QuietSessionsMatch
  <2>1. CASE call'[t] = call[t]
    BY <2>1 DEF QuietSessionsMatch
  <2>2. CASE call'[t] # call[t]
    <3>1. ReadModelList(t)
      BY <2>2, SessionsAreRead
    <3>2. PICK i \in Indices(call[t].sizes, detectors) : call'[t] = Created(call[t], i)
      BY <3>1 DEF ReadModelList, IInv, TypeOK
    <3>3. call[t] \in Creations /\ call[t].op = "create" /\ call[t].step = "detectors"
      BY <3>1, CallsType, CallKinds DEF ReadModelList, Creating, IInv
    <3>4. /\ call'[t].archive = call[t].archive /\ call'[t].disturbed = call[t].disturbed
          /\ call'[t].size = call[t].sizes[i] /\ call'[t].detector = detectors[i]
      BY <3>2 DEF Created
    <3>5. /\ call[t].sizes = PixelsOf[call[t].archive.pkg]
          /\ detectors = DetectorsOf[call[t].archive.pkg]
      BY <3>3, <3>4 DEF IInv, QuietInv, Own
    <3>6. i \in DOMAIN PixelsOf[call[t].archive.pkg]
      BY <3>2, <3>3, <3>5 DEF Indices, Creations, IInv, TypeOK, State, States
    <3> QED BY <3>4, <3>5, <3>6 DEF IsLevelOf
  <2> QED BY <2>1, <2>2
<1> QED BY <1>1, <1>2, Invariant, PTL DEF Spec

\* A load publishes its whole package or nothing, but for what clients have set
\* of the converter meanwhile, which stays.
THEOREM LaunchAllOrNothing == Spec => AllOrNothing
<1> DEFINE Step == \A t \in Threads : call[t].op = "publish" /\ call'[t] = Idle =>
                       State' \in {Generation(call[t].pkg), call[t].before}
<1>1. IInv /\ [Next]_vars => [Step]_vars
  <2> SUFFICES ASSUME IInv, [Next]_vars, NEW t \in Threads, call[t].op = "publish",
                      call'[t] = Idle
               PROVE  State' \in {Generation(call[t].pkg), call[t].before}
    OBVIOUS
  <2>1. call[t].step # "swap" => call[t].before = State
    BY DEF IInv, PublishInv
  <2>2. CASE GiveUp(t) /\ call[t].step # "swap"
    BY <2>1, <2>2 DEF GiveUp, State, published
  <2>3. CASE Swap(t)
    <3>1. Outcome[call[t].pkg] = "good" /\ ConverterIs(call[t].pkg)
      BY <2>3 DEF Swap, At, IInv, PublishInv
    <3>2. converter = ConverterOf(call[t].pkg)
      <4>1. converter \in Converters
        BY DEF IInv, TypeOK, State, States
      <4>2. \A part \in ConverterParts :
               converter[part] = IF part \in overridden THEN converter[part] ELSE call[t].pkg
        BY <3>1 DEF ConverterIs
      <4> QED BY <4>1, <4>2 DEF Converters, ConverterOf, ConverterParts
    <3> QED BY <2>3, <3>2 DEF Swap, State, Generation
  <2> QED BY <2>2, <2>3, PublishersReturn
<1> QED BY <1>1, Invariant, PTL DEF Spec, AllOrNothing

-----------------------------------------------------------------------------
(* Reloads that wait for the sessions under construction. *)

\* A discipline for applications: no package is swapped in while a session is
\* being created.  What else a load does may overlap with creations.
SwapsAlone == \A t \in Threads : Swap(t) => \A s \in Threads : call[s].op # "create"

\* No reload came between the reads of a session.
NoReload == \A t \in Threads : call[t].op \in {"create", "session"} => call[t].disturbed # "reload"

\* A creation that its own thread's step starts or continues is as disturbed as
\* it was.
LEMMA CreatorsRead ==
    ASSUME IInv, NEW t \in Threads, OwnStep(t), call'[t].op = "create"
    PROVE  \/ call[t].op = "create" /\ call'[t].disturbed = call[t].disturbed
           \/ call'[t].disturbed \in {"no", "client"}
<1>1. call \in [Threads -> Calls]
  BY CallsType DEF IInv
<1>2. CASE \E level \in PixelLevels, wants \in Optional : AcquireArchive(t, level, wants)
  BY <1>1, <1>2 DEF AcquireArchive
<1>3. CASE ReadPixelList(t)
  <2>1. call[t] \in Creations /\ call[t].op = "create"
    BY <1>1, <1>3, CallKinds DEF ReadPixelList, Creating
  <2> QED BY <1>1, <1>3, <2>1 DEF ReadPixelList, Creations
<1>4. CASE ReadModelList(t)
  BY <1>1, <1>4 DEF ReadModelList, Created
<1>5. ASSUME Goto(t, "converter") \/ Goto(t, "swap"), call[t] \in Publishes PROVE FALSE
  BY <1>1, <1>5 DEF Goto, Publishes
<1>6. ~GiveUp(t) /\ ~CreateFails(t) /\ ~Release(t) /\ ~Swap(t)
  <2>1. Disturb("reload") \in [Threads -> Calls]
    BY <1>1, DisturbCalls
  <2> QED BY <1>1, <2>1 DEF GiveUp, CreateFails, Release, Swap, Idle
<1>7. ~Parse(t) /\ ~PublishConverter(t)
  BY <1>1, <1>5, <1>6, CallKinds DEF Parse, PublishConverter, At
<1>8. \A p \in Packages : ~BeginLoad(t, p)
  BY <1>1 DEF BeginLoad, Publishing
<1> QED BY <1>2, <1>3, <1>4, <1>6, <1>7, <1>8 DEF OwnStep

\* Every step under the discipline keeps the sessions free of reloads.
LEMMA NoReloadStep ==
    ASSUME IInv, NoReload, [Next]_vars, [SwapsAlone]_vars
    PROVE  NoReload'
<1>1. call \in [Threads -> Calls]
  BY CallsType DEF IInv
<1> SUFFICES ASSUME NEW t \in Threads, call'[t].op \in {"create", "session"}, call'[t] # call[t]
             PROVE  call'[t].disturbed # "reload"
  BY DEF NoReload
<1>2. CASE call'[t].op = "session"
  <2>1. ReadModelList(t)
    BY <1>2, SessionsAreRead
  <2>2. PICK i \in Indices(call[t].sizes, detectors) : call'[t] = Created(call[t], i)
    BY <1>1, <2>1 DEF ReadModelList
  <2> QED BY <2>1, <2>2 DEF ReadModelList, Creating, Created, NoReload
<1>3. CASE call'[t].op = "create"
  <2>1. CASE OwnStep(t)
    BY <1>3, <2>1, CreatorsRead DEF NoReload
  <2>2. ASSUME NEW u \in Threads, Swap(u), call'[t] = Disturb("reload")[t]
        PROVE  FALSE
    <3>1. SwapsAlone
      BY DEF vars
    <3> QED BY <2>2, <3>1 DEF SwapsAlone, Disturb
  <2>4. ASSUME NEW new \in Converters, call[t].op = "publish", call'[t] = Amend(new)[t]
        PROVE  FALSE
    BY <1>1, <1>3, <2>4, AmendCalls
  <2>3. CASE call'[t] = Disturb("client")[t]
    <3>1. CASE call[t].op = "create"
      <4>1. call[t] \in Creations
        BY <1>1, <3>1, CallKinds
      <4> QED BY <2>3, <3>1, <4>1 DEF Disturb, Creations
    <3>2. CASE call[t].op # "create"
      BY <2>3, <3>2 DEF Disturb
    <3> QED BY <3>1, <3>2
  <2> QED BY <2>1, <2>2, <2>3, <2>4, ChangedCalls
<1> QED BY <1>2, <1>3

\* Where packages are swapped in only between creations, every session runs a
\* detector of its own archive at its own size, unless a client has set a list.
THEOREM LaunchDetectorIsOwn == Spec /\ [][SwapsAlone]_vars => []DetectorIsOwn
<1>1. Init => NoReload
  BY DEF Init, NoReload, Idle
<1>2. IInv /\ QuietSessionsMatch /\ NoReload => DetectorIsOwn
  <2> SUFFICES ASSUME IInv, QuietSessionsMatch, NoReload, NEW t \in Threads,
                      call[t].op = "session", call[t].disturbed # "client"
               PROVE  IsLevelOf(call[t].archive.pkg, call[t].size, call[t].detector)
    BY DEF DetectorIsOwn
  <2>1. call[t] \in Sessions
    BY CallsType, CallKinds DEF IInv
  <2>2. call[t].disturbed = "no"
    BY <2>1 DEF Sessions, Disturbances, NoReload
  <2> QED BY <2>2 DEF QuietSessionsMatch
<1> QED BY <1>1, <1>2, NoReloadStep, Invariant, LaunchQuietSessionsMatch, PTL DEF Spec
=============================================================================
