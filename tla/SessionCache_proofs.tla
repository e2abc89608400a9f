------------------------ MODULE SessionCache_proofs ------------------------
(***************************************************************************)
(* Theorems about SessionCache, for any threads, sessions, capture         *)
(* sessions, frames and plans of calls: loans of results hold, the caches  *)
(* follow the tracker, actions are reported from records of their own, and *)
(* so are features if one thread at a time extracts on a session.  A call  *)
(* never waits in a circle of calls for a mutex.                           *)
(***************************************************************************)
EXTENDS SessionCache, TLAPS

SessionNames == {"snapshot", "process", "clear", "extract", "align"}
CaptureNames == {"update", "assess", "results", "finish", "reset"}
Labels ==
    {"idle", "serialize", "lock", "run", "track", "fill", "view", "read", "take", "leave"}
Extracting == {"run", "take", "leave"}
Extractions == {"extract", "align"}

Tokens == [id : Int, frame : Frames, index : Nat]
Records == [id : Int, eyes : Seen \cup {"open"}, blinks : Nat]
Predictors == [list : [1..RecordSize -> Records], index : 0..RecordSize, blinks : Nat]
TrackedFaces == [id : Int, frame : Frames, actions : Predictors]
CallRecords ==
    [operation : SessionNames \cup CaptureNames \cup {"none"},
     target : Sessions \cup Captures \cup {Nobody},
     frame : Frames \cup {Nobody}, face : Tokens \cup {Garbage, Nobody}, count : Nat, read : Seq(Tokens \cup {Garbage}),
     stale : BOOLEAN]
Loans ==
    [capture : Captures \cup {Nobody}, view : Seq(Tokens \cup {Garbage}),
     current : BOOLEAN, dangling : BOOLEAN]

\* The calls a thread makes, and where in them it is.
CallsOK ==
    /\ plan \in Plans
    /\ pc \in [Threads -> Labels]
    /\ call \in [Threads -> CallRecords]
    /\ last = [t \in Threads |-> last[t]]
    /\ held \in [Threads -> Seq(Tokens \cup {Garbage})]
    /\ \A t \in Threads : pc[t] # "idle" =>
         \/ Operation(t) \in SessionNames /\ Target(t) \in Sessions
         \/ Operation(t) \in CaptureNames /\ Target(t) \in Captures
    /\ \A t \in Threads : pc[t] \notin {"idle"} \cup Extracting =>
         Operation(t) \in Tracks /\ call[t].frame \in Frames
    /\ \A t \in Threads : pc[t] \in {"take", "leave"} => Operation(t) \in Extractions

\* The tracker and the caches of a session.
CachesTyped ==
    /\ holder \in [Sessions -> Threads \cup {Nobody}]
    /\ tracking \in [Sessions -> Seq(TrackedFaces)]
    /\ cache \in [Sessions -> Seq(Tokens)]

\* The results of a capture session, and their loans.
LoansTyped ==
    /\ selected \in [Captures -> Seq(Tokens \cup {Garbage})]
    /\ copied \in [Captures -> Seq(Tokens \cup {Garbage})]
    /\ dirty \in [Captures -> BOOLEAN]
    /\ lent \in [Threads -> Loans]

TypeInv == CallsOK /\ CachesTyped /\ LoansTyped

-----------------------------------------------------------------------------
(* Typing. *)

\* A running call concerns one session.
LEMMA SessionTyped ==
    ASSUME CallsOK, NEW t \in Threads, pc[t] # "idle"
    PROVE  Session(t) \in Sessions
BY SessionAssumption DEF CallsOK, Session

\* The record of a call, amended.
LEMMA CallCounts ==
    ASSUME NEW c \in CallRecords, NEW n \in Nat
    PROVE  LET d == [c EXCEPT !.count = n]
           IN  /\ d \in CallRecords /\ d.operation = c.operation /\ d.target = c.target
               /\ d.frame = c.frame
BY DEF CallRecords

LEMMA CallReads ==
    ASSUME NEW c \in CallRecords, NEW r \in Seq(Tokens \cup {Garbage})
    PROVE  LET d == [c EXCEPT !.read = r]
           IN  /\ d \in CallRecords /\ d.operation = c.operation /\ d.target = c.target
               /\ d.frame = c.frame
BY DEF CallRecords

\* A call that begins.
LEMMA BeginTyped ==
    ASSUME CallsOK, NEW t \in Threads, Begin(t)
    PROVE  CallsOK'
<1>1. PICK op \in plan[t].operations :
        /\ \E f \in IF op[1] \in Tracks THEN Frames ELSE {Nobody},
              face \in IF op[1] = "extract" THEN Kept ELSE {Nobody} :
             call' = [call EXCEPT ![t] = [NoCall EXCEPT !.operation = op[1], !.target = op[2],
                                                        !.frame = f, !.face = face]]
        /\ pc' = [pc EXCEPT ![t] = CASE op[1] = "update" -> "serialize" [] op[1] = "snapshot" -> "lock"
                                     [] OTHER -> "run"]
  BY DEF Begin, Goto
<1>0. PICK f \in IF op[1] \in Tracks THEN Frames ELSE {Nobody},
           face \in IF op[1] = "extract" THEN Kept ELSE {Nobody} :
        call' = [call EXCEPT ![t] = [NoCall EXCEPT !.operation = op[1], !.target = op[2],
                                                   !.frame = f, !.face = face]]
  BY <1>1
<1>2. \/ op[1] \in SessionNames /\ op[2] \in Sessions
      \/ op[1] \in CaptureNames /\ op[2] \in Captures
  BY SessionAssumption DEF CallsOK, SessionNames, CaptureNames
<1>3. PICK o \in SessionNames \cup CaptureNames, g \in Sessions \cup Captures :
        o = op[1] /\ g = op[2]
  BY <1>2
<1>5. f \in Frames \cup {Nobody} /\ face \in Tokens \cup {Garbage, Nobody}
  <2>1. Kept \subseteq Tokens \cup {Garbage}
    BY DEF Kept, CallsOK
  <2> QED
    BY <2>1
<1> DEFINE c == [NoCall EXCEPT !.operation = o, !.target = g, !.frame = f, !.face = face]
<1>4. c \in CallRecords /\ c.operation = o /\ c.target = g /\ c.frame = f
  <2>1. <<>> \in Seq(Tokens \cup {Garbage})
    OBVIOUS
  <2> QED
    BY <1>5, <2>1 DEF NoCall, CallRecords
<1>6. pc'[t] \in {"serialize", "lock", "run"} /\ pc' \in [Threads -> Labels]
      /\ (pc'[t] # "run" => op[1] \in Tracks /\ f \in Frames)
  BY <1>1 DEF CallsOK, Labels, Tracks
<1> HIDE DEF c
<1>7. call' = [call EXCEPT ![t] = c]
  BY <1>0, <1>3 DEF c
<1>8. \A u \in Threads \ {t} : call'[u] = call[u] /\ pc'[u] = pc[u]
  BY <1>1, <1>7 DEF CallsOK
<1>9. call'[t] = c /\ call' \in [Threads -> CallRecords]
  BY <1>4, <1>7 DEF CallsOK
<1>10. UNCHANGED <<plan, held, last>>
  BY DEF Begin
<1> QED
  BY <1>2, <1>3, <1>4, <1>6, <1>8, <1>9, <1>10 DEF CallsOK, Operation, Target, Extracting

\* A call that goes on: what it is called on stays.
LEMMA CallGoesOn ==
    ASSUME CallsOK, NEW t \in Threads, pc[t] \notin {"idle"} \cup Extracting,
           NEW label \in Labels \ ({"idle"} \cup Extracting), pc' \in {pc, [pc EXCEPT ![t] = label]},
           call' \in [Threads -> CallRecords],
           \A u \in Threads : /\ call'[u].operation = call[u].operation
                              /\ call'[u].target = call[u].target
                              /\ call'[u].frame = call[u].frame,
           UNCHANGED <<plan, held, last>>
    PROVE  CallsOK'
<1>1. pc' \in [Threads -> Labels] /\ pc'[t] \notin {"idle"} \cup Extracting /\ \A u \in Threads \ {t} : pc'[u] = pc[u]
  BY DEF CallsOK
<1> QED
  BY <1>1 DEF CallsOK, Operation, Target, Extracting

\* A call that returns.
LEMMA ReturnTyped ==
    ASSUME CallsOK, NEW t \in Threads, pc' = [pc EXCEPT ![t] = "idle"],
           call' = [call EXCEPT ![t] = NoCall], NEW result, last' = [last EXCEPT ![t] = result],
           held' \in [Threads -> Seq(Tokens \cup {Garbage})], UNCHANGED plan
    PROVE  CallsOK'
<1>1. NoCall \in CallRecords
  BY DEF NoCall, CallRecords
<1>2. call' \in [Threads -> CallRecords]
  BY <1>1 DEF CallsOK
<1>3. pc' \in [Threads -> Labels] /\ pc'[t] = "idle"
      /\ \A u \in Threads \ {t} : pc'[u] = pc[u] /\ call'[u] = call[u]
  BY DEF CallsOK, Labels
<1> QED
  BY <1>2, <1>3 DEF CallsOK, Operation, Target

\* The elements of a cache are tokens; what is read of it is a token or garbage.
LEMMA TokensTyped ==
    /\ \A faces \in Seq(TrackedFaces) :
         /\ TokensOf(faces) \in Seq(Tokens) /\ Len(TokensOf(faces)) = Len(faces)
         /\ DOMAIN TokensOf(faces) = 1..Len(faces)
<1> SUFFICES ASSUME NEW faces \in Seq(TrackedFaces)
             PROVE  /\ TokensOf(faces) \in Seq(Tokens) /\ Len(TokensOf(faces)) = Len(faces)
                    /\ DOMAIN TokensOf(faces) = 1..Len(faces)
  OBVIOUS
<1>1. DOMAIN faces = 1..Len(faces) /\ Len(faces) \in Nat /\ \A i \in 1..Len(faces) : faces[i] \in TrackedFaces
  OBVIOUS
<1>2. \A i \in 1..Len(faces) : Token(faces[i].id, faces[i].frame, i) \in Tokens
  BY <1>1 DEF Token, Tokens, TrackedFaces
<1>3. TokensOf(faces) \in [1..Len(faces) -> Tokens]
  BY <1>1, <1>2 DEF TokensOf
<1> QED
  BY <1>1, <1>3

\* Overtaking a call changes nothing else of it.
LEMMA OvertakeTyped ==
    ASSUME CallsOK, NEW t \in Threads, NEW places, Overtake(t, places)
    PROVE  /\ call' \in [Threads -> CallRecords]
           /\ \A u \in Threads :
                /\ call'[u].operation = call[u].operation /\ call'[u].target = call[u].target
                /\ call'[u].frame = call[u].frame /\ call'[u].face = call[u].face
                /\ u = t \/ pc[u] \notin places \/ Session(u) # Session(t) =>
                     call'[u].stale = call[u].stale
<1>1. ASSUME NEW u \in Threads
      PROVE  /\ call'[u] \in CallRecords
             /\ call'[u].operation = call[u].operation /\ call'[u].target = call[u].target
             /\ call'[u].frame = call[u].frame /\ call'[u].face = call[u].face
             /\ u = t \/ pc[u] \notin places \/ Session(u) # Session(t) =>
                  call'[u].stale = call[u].stale
  <2> DEFINE marked == u # t /\ pc[u] \in places /\ Session(u) = Session(t)
             b == call[u].stale \/ marked
  <2>1. call[u] \in CallRecords
    BY DEF CallsOK
  <2>2. call'[u] = [call[u] EXCEPT !.stale = b]
    BY <2>1 DEF Overtake, CallRecords
  <2>3. b \in BOOLEAN /\ (~marked => b = call[u].stale)
    BY <2>1 DEF CallRecords
  <2>4. u = t \/ pc[u] \notin places \/ Session(u) # Session(t) => ~marked
    OBVIOUS
  <2> HIDE DEF b, marked
  <2> QED
    BY <2>1, <2>2, <2>3, <2>4 DEF CallRecords
<1>2. call' = [u \in Threads |-> call'[u]]
  BY DEF Overtake
<1> QED
  BY <1>1, <1>2

\* Every step of a call keeps it a call.
LEMMA CallStep ==
    ASSUME CallsOK, CachesTyped, NEW t \in Threads, Step(t)
    PROVE  CallsOK'
<1>1. CASE Serialize(t)
  BY <1>1, CallGoesOn DEF Serialize, Goto, Labels, CallsOK, Extracting
<1>2. CASE Lock(t)
  BY <1>2, OvertakeTyped, CallGoesOn DEF Lock, Goto, Labels, Extracting
<1>3. CASE Track(t)
  BY <1>3, CallGoesOn DEF Track, Goto, Labels, CallsOK, Extracting
<1>4. CASE Fill(t)
  BY <1>4, CallGoesOn DEF Fill, Goto, Labels, CallsOK, Extracting
<1>5. CASE View(t)
  <2>1. PICK n : n = Len((IF Target(t) \in Captures THEN cache ELSE tracking)[Session(t)])
                 /\ call' = [call EXCEPT ![t].count = n]
    BY <1>5 DEF View
  <2>2. n \in Nat
    BY <1>5, <2>1, SessionTyped DEF View, CachesTyped
  <2>3. /\ call' \in [Threads -> CallRecords]
        /\ \A u \in Threads : /\ call'[u].operation = call[u].operation
                              /\ call'[u].target = call[u].target
                              /\ call'[u].frame = call[u].frame
    <3>1. call[t] \in CallRecords
      BY DEF CallsOK
    <3>2. PICK r \in CallRecords : /\ r = [call[t] EXCEPT !.count = n] /\ r.operation = call[t].operation
                                  /\ r.target = call[t].target /\ r.frame = call[t].frame
      BY <2>2, <3>1, CallCounts
    <3>3. call' = [call EXCEPT ![t] = r]
      BY <2>1, <3>2
    <3> QED
      BY <3>2, <3>3 DEF CallsOK
  <2> QED
    BY <1>5, <2>3, CallGoesOn DEF View, Goto, Labels, Extracting
<1>6. CASE Read(t)
  <2>1. PICK face \in Reads(t, Len(call[t].read) + 1) : call' = [call EXCEPT ![t].read = Append(@, face)]
    BY <1>6 DEF Read
  <2>2. face \in Tokens \cup {Garbage}
    BY <1>6, <2>1, SessionTyped DEF Read, Reads, CachesTyped
  <2>3. call[t] \in CallRecords /\ call[t].read \in Seq(Tokens \cup {Garbage})
    BY DEF CallsOK, CallRecords
  <2>4. Append(call[t].read, face) \in Seq(Tokens \cup {Garbage})
    BY <2>2, <2>3
  <2>5. /\ call' \in [Threads -> CallRecords]
        /\ \A u \in Threads : /\ call'[u].operation = call[u].operation
                              /\ call'[u].target = call[u].target
                              /\ call'[u].frame = call[u].frame
    <3>1. PICK r \in CallRecords : /\ r = [call[t] EXCEPT !.read = Append(@, face)]
                                  /\ r.operation = call[t].operation
                                  /\ r.target = call[t].target /\ r.frame = call[t].frame
      BY <2>3, <2>4, CallReads
    <3>2. call' = [call EXCEPT ![t] = r]
      BY <2>1, <3>1
    <3> QED
      BY <3>1, <3>2 DEF CallsOK
  <2> QED
    BY <1>6, <2>5, CallGoesOn DEF Read, Goto, Labels, Extracting
<1>7. CASE Deliver(t)
  <2>1. call[t] \in CallRecords /\ call[t].read \in Seq(Tokens \cup {Garbage})
    BY DEF CallsOK, CallRecords
  <2> QED
    BY <1>7, <2>1, ReturnTyped DEF Deliver, Return, Goto, CallsOK
<1>8. CASE Fail(t) \/ Process(t) \/ ClearTrackingFace(t) \/ UpdateWithSnapshot(t) \/ GetResults(t)
             \/ Finish(t) \/ Reset(t) \/ Leave(t)
  <2>1. Return(t, last[t]) /\ UNCHANGED <<plan, held>>
    BY <1>8 DEF Fail, Process, ClearTrackingFace, UpdateWithSnapshot, GetResults, Finish, Reset, Leave
  <2> QED
    BY <2>1, ReturnTyped DEF Return, Goto, CallsOK
<1>9. CASE Extract(t) \/ ExtractAligned(t)
  <2>1. /\ pc[t] = "run" /\ Overtake(t, {"take"}) /\ UNCHANGED <<plan, held, last>>
        /\ pc' \in {[pc EXCEPT ![t] = "take"], [pc EXCEPT ![t] = "leave"]}
        /\ Operation(t) \in Extractions
    BY <1>9 DEF Extract, ExtractAligned, Runs, Goto, Extractions
  <2>2. /\ pc' \in [Threads -> Labels] /\ pc'[t] \in Extracting
        /\ \A u \in Threads \ {t} : pc'[u] = pc[u]
    BY <2>1 DEF CallsOK, Labels, Extracting
  <2> QED
    BY <2>1, <2>2, OvertakeTyped DEF CallsOK, Operation, Target, Extracting
<1>10. CASE TakeFeature(t)
  <2>1. PICK result : Return(t, result) /\ UNCHANGED <<plan, held>>
    BY <1>10 DEF TakeFeature
  <2> QED
    BY <2>1, ReturnTyped DEF Return, Goto, CallsOK
<1> QED
  BY <1>1, <1>2, <1>3, <1>4, <1>5, <1>6, <1>7, <1>8, <1>9, <1>10 DEF Step

-----------------------------------------------------------------------------
(* The loans of results. *)

\* A clean result_cache shows the selector's results, and a current loan shows a
\* clean result_cache that has not been rewritten.
LoanInv ==
    /\ LoansTyped
    /\ \A c \in Captures : ~dirty[c] => copied[c] = selected[c]
    /\ \A t \in Threads : lent[t].current =>
         /\ lent[t].capture \in Captures
         /\ ~lent[t].dangling /\ ~dirty[lent[t].capture]
         /\ lent[t].view = copied[lent[t].capture]

\* What ending the loans of a capture session leaves of them.
LEMMA LoansEnd ==
    ASSUME LoansTyped, NEW c \in Captures, EndLoans(c)
    PROVE  /\ lent' \in [Threads -> Loans]
           /\ \A t \in Threads : lent'[t].current =>
                lent[t].capture # c /\ lent'[t] = lent[t]
<1> SUFFICES ASSUME NEW t \in Threads
             PROVE  /\ lent'[t] \in Loans
                    /\ lent'[t].current => lent[t].capture # c /\ lent'[t] = lent[t]
  BY DEF EndLoans
<1>1. lent[t] \in Loans
  BY DEF LoansTyped
<1>2. lent'[t] = IF lent[t].capture = c THEN [lent[t] EXCEPT !.current = FALSE] ELSE lent[t]
  BY DEF EndLoans
<1> QED
  BY <1>1, <1>2 DEF Loans

\* Taking the storage away from the loans of a capture session.
LEMMA LoansTaken ==
    ASSUME LoansTyped, NEW c \in Captures, NEW t \in Threads
    PROVE  /\ TakeAway(c)[t] \in Loans
           /\ TakeAway(c)[t].current = lent[t].current
           /\ lent[t].capture # c => TakeAway(c)[t] = lent[t]
<1>1. lent[t] \in Loans
  BY DEF LoansTyped
<1>2. TakeAway(c)[t] = IF lent[t].capture = c THEN [lent[t] EXCEPT !.dangling = TRUE] ELSE lent[t]
  BY DEF TakeAway
<1> QED
  BY <1>1, <1>2 DEF Loans

\* The selector's results may change: the copy is outdated and its loans end.
LEMMA SelectStep ==
    ASSUME LoanInv, NEW c \in Captures, NEW faces \in Seq(Tokens \cup {Garbage}), Select(c, faces)
    PROVE  LoanInv'
<1>1. CASE UNCHANGED captured
  BY <1>1 DEF captured, LoanInv, LoansTyped
<1>2. CASE /\ selected' = [selected EXCEPT ![c] = faces]
           /\ dirty' = [dirty EXCEPT ![c] = TRUE]
           /\ EndLoans(c)
           /\ UNCHANGED copied
  <2>1. /\ selected' \in [Captures -> Seq(Tokens \cup {Garbage})] /\ dirty' \in [Captures -> BOOLEAN]
        /\ dirty'[c] /\ \A d \in Captures \ {c} : dirty'[d] = dirty[d] /\ selected'[d] = selected[d]
    BY <1>2 DEF LoanInv, LoansTyped
  <2> QED
    BY <1>2, <2>1, LoansEnd DEF LoanInv, LoansTyped
<1> QED
  BY <1>1, <1>2 DEF Select

\* GetCaptureResults lends a clean copy: it rewrites the copy only when no loan
\* of it is current.
LEMMA GetStep ==
    ASSUME LoanInv, CallsOK, NEW t \in Threads, GetResults(t)
    PROVE  LoanInv'
<1>1. PICK c \in Captures : c = Target(t)
  BY SessionAssumption DEF GetResults, Runs, CallsOK, SessionNames
<1> DEFINE before == IF Outdated(c) THEN TakeAway(c) ELSE lent
           loan == [capture |-> c, view |-> copied'[c], current |-> TRUE, dangling |-> FALSE]
<1>2. /\ copied' = IF Outdated(c) THEN [copied EXCEPT ![c] = selected[c]] ELSE copied
      /\ dirty' = [dirty EXCEPT ![c] = FALSE]
      /\ lent' = [before EXCEPT ![t] = loan]
      /\ UNCHANGED selected
  BY <1>1 DEF GetResults
<1>3. /\ copied' \in [Captures -> Seq(Tokens \cup {Garbage})] /\ dirty' \in [Captures -> BOOLEAN]
      /\ copied'[c] = selected[c] /\ ~dirty'[c]
      /\ \A d \in Captures \ {c} : copied'[d] = copied[d] /\ dirty'[d] = dirty[d]
  BY <1>2 DEF LoanInv, LoansTyped, Outdated
<1>4. ASSUME NEW u \in Threads
      PROVE  /\ before[u] \in Loans
             /\ before[u].current => /\ before[u] = lent[u] /\ lent[u].capture \in Captures
                                     /\ lent[u].capture = c => copied'[c] = copied[c]
  <2>1. lent[u] \in Loans
    BY DEF LoanInv, LoansTyped
  <2>2. CASE Outdated(c)
    <3>1. before[u] = TakeAway(c)[u]
      BY <2>2
    <3>2. lent[u].current => lent[u].capture \in Captures /\ lent[u].capture # c
      BY <2>2 DEF LoanInv, Outdated
    <3> QED
      BY <3>1, <3>2, LoansTaken DEF LoanInv
  <2>3. CASE ~Outdated(c)
    BY <1>2, <2>1, <2>3 DEF LoanInv
  <2> QED
    BY <2>2, <2>3
<1>5. DOMAIN before = Threads
  BY DEF TakeAway, LoanInv, LoansTyped
<1>6. loan \in Loans /\ loan.current /\ ~loan.dangling /\ loan.capture = c /\ loan.view = copied'[c]
  BY <1>3 DEF Loans
<1> HIDE DEF before, loan
<1>7. lent'[t] = loan /\ \A u \in Threads \ {t} : lent'[u] = before[u]
  BY <1>2, <1>5
<1>8. lent' \in [Threads -> Loans]
  <2>1. lent' = [u \in Threads |-> lent'[u]]
    BY <1>2, <1>5
  <2> QED
    BY <1>4, <1>6, <1>7, <2>1
<1>9. ASSUME NEW u \in Threads, lent'[u].current
      PROVE  /\ lent'[u].capture \in Captures
             /\ ~lent'[u].dangling /\ ~dirty'[lent'[u].capture]
             /\ lent'[u].view = copied'[lent'[u].capture]
  <2>1. CASE u = t
    BY <1>3, <1>6, <1>7, <2>1
  <2>2. CASE u # t
    <3>1. lent'[u] = lent[u] /\ lent[u].capture \in Captures /\ lent[u].current
          /\ (lent[u].capture = c => copied'[c] = copied[c])
      BY <1>4, <1>7, <1>9, <2>2
    <3>2. ~lent[u].dangling /\ ~dirty[lent[u].capture] /\ lent[u].view = copied[lent[u].capture]
      BY <3>1 DEF LoanInv
    <3> QED
      BY <1>3, <3>1, <3>2
  <2> QED
    BY <2>1, <2>2
<1> QED
  BY <1>2, <1>3, <1>8, <1>9 DEF LoanInv, LoansTyped

\* Finishing and resetting a capture session end its loans.
LEMMA FinishStep ==
    ASSUME LoanInv, CallsOK, NEW t \in Threads, Finish(t) \/ Reset(t)
    PROVE  LoanInv'
<1>1. PICK c \in Captures : c = Target(t)
  BY SessionAssumption DEF Finish, Reset, Runs, CallsOK, SessionNames
<1>2. /\ dirty' \in [Captures -> BOOLEAN] /\ dirty'[c]
      /\ \A d \in Captures \ {c} : dirty'[d] = dirty[d]
  BY <1>1 DEF Finish, Reset, LoanInv, LoansTyped
<1>3. /\ selected' \in [Captures -> Seq(Tokens \cup {Garbage})]
      /\ copied' \in [Captures -> Seq(Tokens \cup {Garbage})]
      /\ \A d \in Captures \ {c} : selected'[d] = selected[d] /\ copied'[d] = copied[d]
  <2>0. <<>> \in Seq(Tokens \cup {Garbage})
    OBVIOUS
  <2>1. PICK e \in Seq(Tokens \cup {Garbage}) : e = <<>>
    BY <2>0, Zenon
  <2>2. CASE Finish(t)
    BY <2>2 DEF Finish, LoanInv, LoansTyped
  <2>3. CASE Reset(t)
    <3>1. selected' = [selected EXCEPT ![c] = e] /\ copied' = [copied EXCEPT ![c] = e]
      BY <1>1, <2>1, <2>3 DEF Reset
    <3> QED
      BY <3>1 DEF LoanInv, LoansTyped
  <2> QED
    BY <2>2, <2>3
<1>4. /\ lent' \in [Threads -> Loans]
      /\ \A u \in Threads : lent'[u].current => lent[u].capture # c /\ lent'[u] = lent[u]
  <2>1. CASE Finish(t)
    BY <1>1, <2>1, LoansEnd DEF Finish, LoanInv
  <2>2. CASE Reset(t)
    <3> SUFFICES ASSUME NEW u \in Threads
                 PROVE  /\ lent'[u] \in Loans
                        /\ lent'[u].current => lent[u].capture # c /\ lent'[u] = lent[u]
      BY <2>2 DEF Reset
    <3>1. lent'[u] = [TakeAway(c)[u] EXCEPT !.current = @ /\ lent[u].capture # c]
      BY <1>1, <2>2 DEF Reset
    <3>2. PICK l \in Loans : l = TakeAway(c)[u] /\ (lent[u].capture # c => l = lent[u])
      BY LoansTaken DEF LoanInv
    <3>3. lent'[u] = [l EXCEPT !.current = l.current /\ lent[u].capture # c]
      BY <3>1, <3>2
    <3>4. CASE lent[u].capture = c
      BY <3>2, <3>3, <3>4 DEF Loans
    <3>5. CASE lent[u].capture # c
      <4>1. lent'[u] = [l EXCEPT !.current = l.current]
        BY <3>2, <3>3, <3>5 DEF Loans
      <4>2. lent'[u] = l
        BY <3>2, <4>1 DEF Loans
      <4> QED
        BY <3>2, <3>5, <4>2
    <3> QED
      BY <3>4, <3>5
  <2> QED
    BY <2>1, <2>2
<1>5. \A d \in Captures : ~dirty'[d] => copied'[d] = selected'[d]
  BY <1>2, <1>3 DEF LoanInv
<1>6. ASSUME NEW u \in Threads, lent'[u].current
      PROVE  /\ lent'[u].capture \in Captures
             /\ ~lent'[u].dangling /\ ~dirty'[lent'[u].capture]
             /\ lent'[u].view = copied'[lent'[u].capture]
  <2>1. lent'[u] = lent[u] /\ lent[u].capture # c
    BY <1>4, <1>6
  <2>2. /\ lent[u].capture \in Captures /\ ~lent[u].dangling /\ ~dirty[lent[u].capture]
        /\ lent[u].view = copied[lent[u].capture]
    BY <1>6, <2>1 DEF LoanInv
  <2> QED
    BY <1>2, <1>3, <2>1, <2>2
<1> QED
  BY <1>2, <1>3, <1>4, <1>5, <1>6 DEF LoanInv, LoansTyped

\* Every step keeps the loans.
LEMMA LoanStep ==
    ASSUME LoanInv, CallsOK, NEW t \in Threads, Begin(t) \/ Step(t)
    PROVE  LoanInv'
<1>1. CASE UNCHANGED captured
  BY <1>1 DEF captured, LoanInv, LoansTyped
<1>2. CASE Deliver(t)
  <2>1. call[t].read \in Seq(Tokens \cup {Garbage})
    BY DEF CallsOK, CallRecords
  <2> QED
    BY <1>1, <1>2, <2>1, SelectStep DEF Deliver
<1>3. CASE UpdateWithSnapshot(t)
  <2>1. Target(t) \in Captures /\ held[t] \in Seq(Tokens \cup {Garbage})
    BY <1>3, SessionAssumption DEF UpdateWithSnapshot, Runs, CallsOK, SessionNames
  <2> QED
    BY <1>3, <2>1, SelectStep DEF UpdateWithSnapshot
<1>4. CASE Begin(t) \/ Serialize(t) \/ Lock(t) \/ Track(t) \/ Fail(t) \/ Fill(t) \/ View(t) \/ Read(t)
             \/ Process(t) \/ ClearTrackingFace(t)
             \/ Extract(t) \/ ExtractAligned(t) \/ TakeFeature(t) \/ Leave(t)
  BY <1>1, <1>4 DEF Begin, Serialize, Lock, Track, Fail, Fill, View, Read, Process, ClearTrackingFace,
                    Extract, ExtractAligned, TakeFeature, Leave
<1> QED
  BY <1>2, <1>3, <1>4, GetStep, FinishStep DEF Step

-----------------------------------------------------------------------------
(* The window of a face. *)

\* The records that count are of one face, and of the time since its last blink.
Owns(p, id) == \A i \in 1..p.index : p.list[i].id = id /\ p.list[i].blinks = p.blinks

\* An empty window.
LEMMA NewOwned ==
    NewPredictor \in Predictors /\ \A id : Owns(NewPredictor, id)
<1>1. NoRecord \in Records
  BY DEF NoRecord, Record, Records
<1>2. 0 \in 0..RecordSize
  BY WindowAssumption
<1>3. [i \in 1..RecordSize |-> NoRecord] \in [1..RecordSize -> Records]
  BY <1>1
<1>4. NewPredictor \in Predictors
  BY <1>2, <1>3 DEF NewPredictor, Predictors
<1>5. 1..NewPredictor.index = {}
  BY DEF NewPredictor
<1> QED
  BY <1>4, <1>5 DEF Owns

\* A record of the face is added in front.
LEMMA RecordOwned ==
    ASSUME NEW p \in Predictors, NEW id \in Int, NEW eyes \in Seen, Owns(p, id)
    PROVE  RecordActionFrame(p, id, eyes) \in Predictors /\ Owns(RecordActionFrame(p, id, eyes), id)
<1> DEFINE new == Record(id, eyes, p.blinks)
           list == [MoveRecordList(p) EXCEPT ![1] = new]
           n == Least(p.index + 1, RecordSize)
           q == RecordActionFrame(p, id, eyes)
<1>1. /\ p.list \in [1..RecordSize -> Records] /\ p.index \in 0..RecordSize /\ p.blinks \in Nat
      /\ RecordSize \in Nat \ {0}
  BY WindowAssumption DEF Predictors
<1>2. new \in Records /\ new.id = id /\ new.blinks = p.blinks
  BY <1>1 DEF Record, Records
<1>3. MoveRecordList(p) \in [1..RecordSize -> Records]
  BY <1>1 DEF MoveRecordList, Least
<1>4. n \in 0..RecordSize
  BY <1>1 DEF Least
<1>5. list \in [1..RecordSize -> Records]
  BY <1>1, <1>2, <1>3
<1>6. q = [p EXCEPT !.list = list, !.index = n]
  BY DEF RecordActionFrame
<1>7. ASSUME NEW i \in 1..n PROVE list[i].id = id /\ list[i].blinks = p.blinks
  <2>1. CASE i = 1
    BY <1>1, <1>2, <1>3, <1>4, <2>1
  <2>2. CASE i # 1
    <3>1. i \in 2..(Least(p.index, RecordSize - 1) + 1) /\ i \in 1..RecordSize /\ i - 1 \in 1..p.index
      BY <1>1, <2>2 DEF Least
    <3>2. list[i] = MoveRecordList(p)[i]
      BY <1>3, <2>2, <3>1
    <3>3. MoveRecordList(p)[i] = p.list[i - 1]
      BY <3>1 DEF MoveRecordList
    <3> QED
      BY <3>1, <3>2, <3>3 DEF Owns
  <2> QED
    BY <2>1, <2>2
<1> HIDE DEF list, n
<1>8. q \in Predictors /\ q.list = list /\ q.index = n /\ q.blinks = p.blinks
  BY <1>4, <1>5, <1>6 DEF Predictors
<1> QED
  BY <1>7, <1>8 DEF Owns

\* An analysis looks at records of the face since its last blink, and a blink
\* leaves an empty window.
LEMMA AnalysisOwned ==
    ASSUME NEW p \in Predictors, NEW id, Owns(p, id)
    PROVE  /\ AnalysisFaceAction(p).next \in Predictors /\ Owns(AnalysisFaceAction(p).next, id)
           /\ \A r, q \in AnalysisFaceAction(p).window : r.id = id /\ r.blinks = q.blinks
<1>1. /\ p.index \in 0..RecordSize /\ p.blinks \in Nat /\ RecordSize \in Nat \ {0}
  BY WindowAssumption DEF Predictors
<1>2. CASE ~WindowIsFull(p)
  BY <1>2 DEF AnalysisFaceAction
<1>3. CASE WindowIsFull(p)
  <2>1. /\ AnalysisFaceAction(p).window = {p.list[i] : i \in 1..RecordSize}
        /\ AnalysisFaceAction(p).next \in {p, [p EXCEPT !.index = 0, !.blinks = @ + 1]}
    BY <1>3 DEF AnalysisFaceAction
  <2>2. [p EXCEPT !.index = 0, !.blinks = @ + 1] \in Predictors
    <3>1. PICK m \in 0..RecordSize, b \in Nat : m = 0 /\ b = p.blinks + 1
      BY <1>1
    <3>2. [p EXCEPT !.index = m, !.blinks = b] \in Predictors
      BY DEF Predictors
    <3> QED
      BY <3>1, <3>2
  <2>3. Owns([p EXCEPT !.index = 0, !.blinks = @ + 1], id)
    BY DEF Owns, Predictors
  <2>4. \A i \in 1..RecordSize : p.list[i].id = id /\ p.list[i].blinks = p.blinks
    BY <1>3 DEF WindowIsFull, Owns
  <2> QED
    BY <2>1, <2>2, <2>3, <2>4
<1> QED
  BY <1>2, <1>3

-----------------------------------------------------------------------------
(* The tracker of a session. *)

\* A tracked face has a window of its own.
OwnFace(face) == face \in TrackedFaces /\ Owns(face.actions, face.id)

\* What the tracker holds, and what has been reported of it.
TrackerInv ==
    /\ tracking \in [Sessions -> Seq(TrackedFaces)]
    /\ \A s \in Sessions : \A i \in 1..Len(tracking[s]) : OwnFace(tracking[s][i])
    /\ results = [s \in Sessions |-> results[s]]
    /\ ActionsAreOwn

\* The faces of a frame: one that stays keeps its window, a new one has an empty one.
LEMMA TrackedOwned ==
    ASSUME TrackerInv, NEW s \in Sessions, NEW f \in Frames
    PROVE  /\ Tracked(s, f) \in Seq(TrackedFaces) /\ Len(Tracked(s, f)) = Len(IdsIn[f])
           /\ \A i \in 1..Len(IdsIn[f]) : OwnFace(Tracked(s, f)[i])
           /\ DOMAIN IdsIn[f] = 1..Len(IdsIn[f]) /\ Len(IdsIn[f]) \in Nat
<1>1. ASSUME NEW id \in Int PROVE ActionsOf(s, id) \in Predictors /\ Owns(ActionsOf(s, id), id)
  <2> DEFINE known == {i \in DOMAIN tracking[s] : tracking[s][i].id = id}
  <2>1. CASE known = {}
    BY <2>1, NewOwned DEF ActionsOf
  <2>2. CASE known # {}
    <3>1. PICK i \in known : ActionsOf(s, id) = tracking[s][i].actions
      BY <2>2 DEF ActionsOf
    <3>2. i \in 1..Len(tracking[s]) /\ tracking[s][i].id = id
      BY <3>1 DEF TrackerInv
    <3>3. OwnFace(tracking[s][i])
      BY <3>2 DEF TrackerInv
    <3> QED
      BY <3>1, <3>2, <3>3 DEF OwnFace, TrackedFaces
  <2> QED
    BY <2>1, <2>2
<1>2. IdsIn[f] \in Seq(Int)
  BY SessionAssumption
<1>3. DOMAIN IdsIn[f] = 1..Len(IdsIn[f]) /\ Len(IdsIn[f]) \in Nat /\ \A i \in 1..Len(IdsIn[f]) : IdsIn[f][i] \in Int
  BY <1>2
<1> DEFINE faces == [i \in DOMAIN IdsIn[f] |-> Face(IdsIn[f][i], f, ActionsOf(s, IdsIn[f][i]))]
<1>4. Tracked(s, f) = faces
  BY DEF Tracked
<1>5. \A i \in 1..Len(IdsIn[f]) : OwnFace(faces[i])
  BY <1>1, <1>3 DEF Face, OwnFace, TrackedFaces
<1>6. faces \in [1..Len(IdsIn[f]) -> TrackedFaces]
  BY <1>3, <1>5 DEF OwnFace
<1> HIDE DEF faces
<1>7. faces \in Seq(TrackedFaces) /\ Len(faces) = Len(IdsIn[f])
  BY <1>3, <1>6
<1> QED
  BY <1>3, <1>4, <1>5, <1>7

\* What a failing model leaves are faces with windows of their own.
LEMMA RemainsOwned ==
    ASSUME TrackerInv, NEW s \in Sessions, NEW f \in Frames, NEW faces \in Remains(s, f)
    PROVE  faces \in Seq(TrackedFaces) /\ \A i \in 1..Len(faces) : OwnFace(faces[i])
<1>1. \A face \in Present(s, f) : OwnFace(face)
  <2>1. \A i \in DOMAIN tracking[s] : OwnFace(tracking[s][i])
    BY DEF TrackerInv
  <2>2. \A i \in DOMAIN IdsIn[f] : OwnFace(Tracked(s, f)[i])
    BY TrackedOwned
  <2> QED
    BY <2>1, <2>2 DEF Present
<1>2. Len(tracking[s]) \in Nat /\ Len(IdsIn[f]) \in Nat
  BY TrackedOwned DEF TrackerInv
<1>3. PICK n \in Nat : faces \in [1..n -> Present(s, f)]
  <2>1. PICK a \in Nat, b \in Nat : a = Len(tracking[s]) /\ b = Len(IdsIn[f])
    BY <1>2
  <2>2. faces \in UNION {[1..n -> Present(s, f)] : n \in 0..(a + b)}
    BY <2>1 DEF Remains
  <2>3. PICK n \in 0..(a + b) : faces \in [1..n -> Present(s, f)]
    BY <2>2
  <2> QED
    BY <2>3
<1>4. /\ \A i \in 1..n : OwnFace(faces[i])
      /\ faces \in [1..n -> TrackedFaces]
  BY <1>1, <1>3 DEF OwnFace
<1>5. faces \in Seq(TrackedFaces) /\ Len(faces) = n
  BY <1>4
<1> QED
  BY <1>4, <1>5

\* A frame, tracked or failed, keeps the windows of the faces their own.
LEMMA TrackOwned ==
    ASSUME TrackerInv, CallsOK, NEW t \in Threads, Track(t) \/ Fail(t)
    PROVE  /\ tracking' \in [Sessions -> Seq(TrackedFaces)]
           /\ \A s \in Sessions : \A i \in 1..Len(tracking'[s]) : OwnFace(tracking'[s][i])
<1>1. PICK s \in Sessions, f \in Frames : s = Session(t) /\ f = call[t].frame
  BY SessionTyped DEF Track, Fail, CallsOK, Extracting
<1>2. PICK faces \in {Tracked(s, f)} \cup Remains(s, f) : tracking' = [tracking EXCEPT ![s] = faces]
  BY <1>1 DEF Track, Fail
<1>3. faces \in Seq(TrackedFaces) /\ \A i \in 1..Len(faces) : OwnFace(faces[i])
  BY <1>2, TrackedOwned, RemainsOwned
<1> QED
  BY <1>2, <1>3 DEF TrackerInv

\* FacesProcess adds a record to the window of the face a token names, and to no
\* other: the ids agree.
LEMMA ProcessOwned ==
    ASSUME TrackerInv, CallsOK, NEW t \in Threads, Process(t)
    PROVE  /\ tracking' \in [Sessions -> Seq(TrackedFaces)]
           /\ \A s \in Sessions : /\ Len(tracking'[s]) = Len(tracking[s])
                                  /\ \A i \in 1..Len(tracking[s]) :
                                       /\ OwnFace(tracking'[s][i])
                                       /\ tracking'[s][i].id = tracking[s][i].id
                                       /\ tracking'[s][i].frame = tracking[s][i].frame
           /\ results' = [s \in Sessions |-> results'[s]] /\ ActionsAreOwn'
<1> DEFINE s == Target(t)
           faces == held[t]
<1>1. s \in Sessions
  BY SessionAssumption DEF Process, Runs, CallsOK, CaptureNames
<1>2. PICK done \in 0..Len(faces), eyes \in [DOMAIN faces -> Seen] :
        LET Analysed(i) ==
              AnalysisFaceAction(RecordActionFrame(
                  tracking[s][faces[i].index].actions, faces[i].id, eyes[i]))
            traced == {i \in 1..done : Traces(s, faces[i])}
        IN  /\ tracking' = [tracking EXCEPT ![s] =
                 [k \in DOMAIN @ |->
                    IF \E i \in traced : faces[i].index = k
                    THEN [@[k] EXCEPT !.actions =
                            Analysed(CHOOSE i \in traced : faces[i].index = k).next]
                    ELSE @[k]]]
            /\ results' = [results EXCEPT ![s] =
                 [i \in DOMAIN faces |->
                    [id |-> faces[i].id,
                     window |-> IF i \in traced THEN Analysed(i).window ELSE {}]]]
  BY DEF Process
<1> DEFINE Analysed(i) ==
             AnalysisFaceAction(RecordActionFrame(
                 tracking[s][faces[i].index].actions, faces[i].id, eyes[i]))
           traced == {i \in 1..done : Traces(s, faces[i])}
           after == [k \in DOMAIN tracking[s] |->
                       IF \E i \in traced : faces[i].index = k
                       THEN [tracking[s][k] EXCEPT !.actions =
                               Analysed(CHOOSE i \in traced : faces[i].index = k).next]
                       ELSE tracking[s][k]]
           reported == [i \in DOMAIN faces |->
                          [id |-> faces[i].id,
                           window |-> IF i \in traced THEN Analysed(i).window ELSE {}]]
<1>3. tracking' = [tracking EXCEPT ![s] = after] /\ results' = [results EXCEPT ![s] = reported]
  BY <1>2
<1> HIDE DEF s
<1>4. faces \in Seq(Tokens \cup {Garbage}) /\ DOMAIN faces = 1..Len(faces) /\ Len(faces) \in Nat
  BY DEF CallsOK
<1>5. tracking[s] \in Seq(TrackedFaces) /\ DOMAIN tracking[s] = 1..Len(tracking[s])
      /\ \A k \in 1..Len(tracking[s]) : OwnFace(tracking[s][k])
  BY <1>1 DEF TrackerInv
<1>6. ASSUME NEW i \in traced
      PROVE  /\ faces[i].index \in 1..Len(tracking[s])
             /\ faces[i].id = tracking[s][faces[i].index].id
             /\ Analysed(i).next \in Predictors /\ Owns(Analysed(i).next, faces[i].id)
             /\ \A r, q \in Analysed(i).window : r.id = faces[i].id /\ r.blinks = q.blinks
  <2>1. /\ faces[i].index \in 1..Len(tracking[s])
        /\ faces[i].id = tracking[s][faces[i].index].id
    BY <1>5 DEF Traces
  <2>2. PICK k \in 1..Len(tracking[s]), id \in Int, p \in Predictors, e \in Seen :
           /\ k = faces[i].index /\ id = faces[i].id /\ p = tracking[s][k].actions /\ e = eyes[i]
           /\ Owns(p, id)
    <3>1. i \in DOMAIN faces
      BY <1>4
    <3>2. eyes[i] \in Seen
      BY <3>1
    <3>3. OwnFace(tracking[s][faces[i].index])
      BY <1>5, <2>1
    <3> QED
      BY <2>1, <3>2, <3>3 DEF OwnFace, TrackedFaces
  <2>3. RecordActionFrame(p, id, e) \in Predictors /\ Owns(RecordActionFrame(p, id, e), id)
    BY <2>2, RecordOwned
  <2>4. Analysed(i) = AnalysisFaceAction(RecordActionFrame(p, id, e))
    BY <2>2
  <2>5. /\ AnalysisFaceAction(RecordActionFrame(p, id, e)).next \in Predictors
        /\ Owns(AnalysisFaceAction(RecordActionFrame(p, id, e)).next, id)
        /\ \A r, q \in AnalysisFaceAction(RecordActionFrame(p, id, e)).window :
             r.id = id /\ r.blinks = q.blinks
    BY <2>3, AnalysisOwned
  <2> HIDE DEF Analysed
  <2> QED
    BY <2>1, <2>2, <2>4, <2>5
<1>7. ASSUME NEW k \in 1..Len(tracking[s])
      PROVE  /\ OwnFace(after[k]) /\ after[k].id = tracking[s][k].id
             /\ after[k].frame = tracking[s][k].frame
  <2>1. CASE \E i \in traced : faces[i].index = k
    <3>1. PICK i \in traced : /\ faces[i].index = k
                              /\ after[k] = [tracking[s][k] EXCEPT !.actions = Analysed(i).next]
      BY <1>5, <2>1
    <3>2. PICK a \in Predictors : a = Analysed(i).next /\ Owns(a, tracking[s][k].id)
      BY <1>6, <3>1
    <3>3. after[k] = [tracking[s][k] EXCEPT !.actions = a]
      BY <3>1, <3>2
    <3> HIDE DEF after
    <3> QED
      BY <1>5, <3>2, <3>3 DEF OwnFace, TrackedFaces
  <2>2. CASE ~ \E i \in traced : faces[i].index = k
    <3>1. after[k] = tracking[s][k]
      BY <1>5, <2>2
    <3> QED
      BY <1>5, <3>1
  <2> QED
    BY <2>1, <2>2
<1>8. DOMAIN after = 1..Len(tracking[s]) /\ after \in [1..Len(tracking[s]) -> TrackedFaces]
  <2>1. after = [k \in 1..Len(tracking[s]) |-> after[k]]
    BY <1>5
  <2> HIDE DEF after
  <2> QED
    BY <1>7, <2>1 DEF OwnFace
<1>9. ASSUME NEW i \in DOMAIN faces
      PROVE  \A r, q \in reported[i].window : r.id = reported[i].id /\ r.blinks = q.blinks
  <2> HIDE DEF Analysed
  <2>1. CASE i \in traced
    BY <1>6, <2>1
  <2>2. CASE i \notin traced
    BY <2>2
  <2> QED
    BY <2>1, <2>2
<1>10. DOMAIN reported = DOMAIN faces
  OBVIOUS
<1> HIDE DEF after, reported, faces
<1>11. after \in Seq(TrackedFaces) /\ Len(after) = Len(tracking[s])
  BY <1>5, <1>8
<1>12. results' = [x \in Sessions |-> results'[x]] /\ ActionsAreOwn'
  <2>1. results'[s] = reported /\ \A x \in Sessions \ {s} : results'[x] = results[x]
    BY <1>1, <1>3 DEF TrackerInv
  <2>2. results' = [x \in Sessions |-> results'[x]]
    BY <1>3 DEF TrackerInv
  <2>3. ASSUME NEW x \in Sessions, NEW i \in DOMAIN results'[x]
        PROVE  \A r, q \in results'[x][i].window : r.id = results'[x][i].id /\ r.blinks = q.blinks
    <3>1. CASE x = s
      BY <1>9, <1>10, <2>1, <3>1
    <3>2. CASE x # s
      BY <2>1, <3>2 DEF TrackerInv, ActionsAreOwn
    <3> QED
      BY <3>1, <3>2
  <2> QED
    BY <2>2, <2>3 DEF ActionsAreOwn
<1>13. tracking'[s] = after /\ \A x \in Sessions \ {s} : tracking'[x] = tracking[x]
  BY <1>1, <1>3 DEF TrackerInv
<1>14. tracking' \in [Sessions -> Seq(TrackedFaces)]
  BY <1>3, <1>11 DEF TrackerInv
<1> QED
  BY <1>7, <1>11, <1>12, <1>13, <1>14 DEF TrackerInv

\* Every step keeps the windows and the reports of the faces their own.
LEMMA TrackerStep ==
    ASSUME TrackerInv, CallsOK, NEW t \in Threads, Begin(t) \/ Step(t)
    PROVE  TrackerInv'
<1>1. CASE UNCHANGED <<tracking, results>>
  BY <1>1 DEF TrackerInv, ActionsAreOwn
<1>2. CASE Track(t) \/ Fail(t)
  <2>1. UNCHANGED results
    BY <1>2 DEF Track, Fail
  <2>2. ActionsAreOwn' /\ results' = [s \in Sessions |-> results'[s]]
    BY <2>1 DEF TrackerInv, ActionsAreOwn
  <2> QED
    BY <1>2, <2>2, TrackOwned DEF TrackerInv
<1>3. CASE Process(t)
  BY <1>3, ProcessOwned DEF TrackerInv
<1>4. CASE Lock(t)
  <2>1. tracking' = tracking /\ results' = [results EXCEPT ![Session(t)] = <<>>]
    BY <1>4 DEF Lock
  <2>2. results' = [s \in Sessions |-> results'[s]]
        /\ \A s \in Sessions : results'[s] \in {results[s], <<>>}
    BY <2>1 DEF TrackerInv
  <2>3. ActionsAreOwn'
    BY <2>2 DEF TrackerInv, ActionsAreOwn
  <2> QED
    BY <2>1, <2>2, <2>3 DEF TrackerInv
<1>5. CASE ClearTrackingFace(t)
  <2>1. tracking' = [tracking EXCEPT ![Target(t)] = <<>>] /\ UNCHANGED results
    BY <1>5 DEF ClearTrackingFace
  <2>2. <<>> \in Seq(TrackedFaces)
    OBVIOUS
  <2>3. tracking' \in [Sessions -> Seq(TrackedFaces)]
        /\ \A s \in Sessions : tracking'[s] \in {tracking[s], <<>>}
    BY <2>1, <2>2 DEF TrackerInv
  <2>4. \A s \in Sessions : \A i \in 1..Len(tracking'[s]) : OwnFace(tracking'[s][i])
    BY <2>3 DEF TrackerInv
  <2> QED
    BY <2>1, <2>3, <2>4 DEF TrackerInv, ActionsAreOwn
<1>6. CASE Begin(t) \/ Serialize(t) \/ Fill(t) \/ View(t) \/ Read(t) \/ Deliver(t)
             \/ UpdateWithSnapshot(t) \/ GetResults(t) \/ Finish(t) \/ Reset(t)
             \/ Extract(t) \/ ExtractAligned(t) \/ TakeFeature(t) \/ Leave(t)
  BY <1>1, <1>6 DEF Begin, Serialize, Fill, View, Read, Deliver, UpdateWithSnapshot, GetResults,
                    Finish, Reset, Extract, ExtractAligned, TakeFeature, Leave, caches
<1> QED
  BY <1>2, <1>3, <1>4, <1>5, <1>6 DEF Step

-----------------------------------------------------------------------------
(* The caches of a session. *)

\* The part of the cache that has been filled shows what the tracker holds.
Follows(s) ==
    tracking[s] # <<>> =>
        /\ Len(cache[s]) <= Len(tracking[s])
        /\ \A i \in 1..Len(cache[s]) : cache[s][i] = TokensOf(tracking[s])[i]

\* A thread that tracks holds the mutex of its session, so nobody else fills it.
Tracking(t, s) == pc[t] \in {"track", "fill"} /\ Session(t) = s

CacheInv ==
    /\ CachesTyped
    /\ \A t \in Threads, s \in Sessions : Tracking(t, s) =>
         /\ holder[s] = t
         /\ pc[t] = "track" => cache[s] = <<>>
         /\ pc[t] = "fill" => Follows(s)
    /\ CachesFollowTracker

\* A thread's step leaves the other threads where they are, on their sessions.
LEMMA OthersStay ==
    ASSUME CallsOK, NEW t \in Threads, Begin(t) \/ Step(t), NEW u \in Threads \ {t}
    PROVE  pc'[u] = pc[u] /\ Session(u)' = Session(u)
<1>1. pc'[u] = pc[u]
  BY DEF Begin, Step, Serialize, Lock, Track, Fail, Fill, View, Read, Deliver, Process,
         ClearTrackingFace, Extract, ExtractAligned, TakeFeature, Leave, UpdateWithSnapshot,
         GetResults, Finish, Reset, Return, Goto, CallsOK
<1>2. call'[u].target = call[u].target
  <2>1. CASE Lock(t) \/ Extract(t) \/ ExtractAligned(t)
    BY <2>1, OvertakeTyped DEF Lock, Extract, ExtractAligned
  <2>2. CASE Begin(t)
    <3>1. \E c : call' = [call EXCEPT ![t] = c]
      BY <2>2 DEF Begin
    <3> QED
      BY <3>1 DEF CallsOK
  <2>3. CASE ~Lock(t) /\ ~Extract(t) /\ ~ExtractAligned(t) /\ ~Begin(t)
    BY <2>3 DEF Step, Serialize, Track, Fail, Fill, View, Read, Deliver, Process,
           ClearTrackingFace, TakeFeature, Leave, UpdateWithSnapshot, GetResults, Finish, Reset,
           Return, CallsOK
  <2> QED
    BY <2>1, <2>2, <2>3
<1> QED
  BY <1>1, <1>2 DEF Session, Target

\* The invariant is kept by a step that takes nothing from the other holders and
\* keeps what it claims of its own session.
LEMMA CacheKept ==
    ASSUME CacheInv, CallsOK, CachesTyped', NEW t \in Threads, Begin(t) \/ Step(t),
           \A s \in Sessions : holder[s] \notin {t, Nobody} =>
             /\ holder'[s] = holder[s] /\ cache'[s] = cache[s]
             /\ Follows(s) => Follows(s)',
           \A s \in Sessions : Tracking(t, s)' =>
             /\ holder'[s] = t
             /\ pc'[t] = "track" => cache'[s] = <<>>
             /\ pc'[t] = "fill" => Follows(s)',
           CachesFollowTracker'
    PROVE  CacheInv'
<1> SUFFICES ASSUME NEW u \in Threads, NEW s \in Sessions, Tracking(u, s)', u # t
             PROVE  /\ holder'[s] = u
                    /\ pc'[u] = "track" => cache'[s] = <<>>
                    /\ pc'[u] = "fill" => Follows(s)'
  BY DEF CacheInv
<1>1. pc'[u] = pc[u] /\ Tracking(u, s)
  BY OthersStay DEF Tracking
<1>2. /\ holder[s] = u /\ u # Nobody
      /\ pc[u] = "track" => cache[s] = <<>>
      /\ pc[u] = "fill" => Follows(s)
  BY <1>1, SessionAssumption DEF CacheInv
<1> QED
  BY <1>1, <1>2

\* What a step does to its own thread's session.
LEMMA OwnSession ==
    ASSUME CallsOK, NEW t \in Threads, Step(t), ~Lock(t), call'[t].target = call[t].target
    PROVE  Session(t)' = Session(t)
BY DEF Session, Target

\* Filling appends the next token, and stops when the cache is complete.
LEMMA FillFollows ==
    ASSUME CacheInv, NEW s \in Sessions, Follows(s), UNCHANGED tracking
    PROVE  /\ Len(cache[s]) + 1 <= Len(tracking[s])
                /\ cache'[s] = Append(cache[s], TokensOf(tracking[s])[Len(cache[s]) + 1]) => Follows(s)'
           /\ ~(Len(cache[s]) + 1 <= Len(tracking[s])) /\ tracking[s] # <<>> =>
                cache[s] = TokensOf(tracking[s])
<1>1. /\ cache[s] \in Seq(Tokens) /\ Len(cache[s]) \in Nat
      /\ tracking[s] \in Seq(TrackedFaces) /\ Len(tracking[s]) \in Nat
  BY DEF CacheInv, CachesTyped
<1>2. /\ TokensOf(tracking[s]) \in Seq(Tokens) /\ Len(TokensOf(tracking[s])) = Len(tracking[s])
      /\ \A i \in 1..Len(tracking[s]) : TokensOf(tracking[s])[i] \in Tokens
  BY <1>1, TokensTyped
<1> DEFINE token == TokensOf(tracking[s])[Len(cache[s]) + 1]
<1>3. ASSUME Len(cache[s]) + 1 <= Len(tracking[s]), cache'[s] = Append(cache[s], token)
      PROVE  Follows(s)'
  <2>1. PICK k \in Tokens : k = token
    BY <1>1, <1>2, <1>3
  <2>2. Len(cache'[s]) = Len(cache[s]) + 1 /\ cache'[s][Len(cache[s]) + 1] = k
        /\ \A i \in 1..Len(cache[s]) : cache'[s][i] = cache[s][i]
    BY <1>1, <1>3, <2>1
  <2>3. tracking[s] # <<>>
    BY <1>1, <1>3
  <2>4. \A i \in 1..Len(cache'[s]) : cache'[s][i] = TokensOf(tracking[s])[i]
    BY <1>1, <2>1, <2>2, <2>3 DEF Follows
  <2> QED
    BY <1>3, <2>2, <2>4 DEF Follows, TokensOf
<1>4. ASSUME ~(Len(cache[s]) + 1 <= Len(tracking[s])), tracking[s] # <<>>
      PROVE  cache[s] = TokensOf(tracking[s])
  <2>1. Len(cache[s]) = Len(tracking[s])
    BY <1>1, <1>4 DEF Follows
  <2>2. \A i \in 1..Len(cache[s]) : cache[s][i] = TokensOf(tracking[s])[i]
    BY <1>4 DEF Follows
  <2>3. PICK q \in Seq(Tokens) : q = TokensOf(tracking[s])
    BY <1>2
  <2> QED
    BY <1>1, <1>2, <2>1, <2>2, <2>3
<1> QED
  BY <1>3, <1>4

\* The tokens of the tracker tell faces and frames, not windows.
LEMMA SameTokens ==
    ASSUME CachesTyped, tracking' \in [Sessions -> Seq(TrackedFaces)], NEW s \in Sessions,
           Len(tracking'[s]) = Len(tracking[s]),
           \A i \in 1..Len(tracking[s]) : /\ tracking'[s][i].id = tracking[s][i].id
                                          /\ tracking'[s][i].frame = tracking[s][i].frame
    PROVE  TokensOf(tracking[s])' = TokensOf(tracking[s])
<1>1. DOMAIN tracking[s] = 1..Len(tracking[s]) /\ DOMAIN tracking'[s] = 1..Len(tracking[s])
  BY DEF CachesTyped
<1> QED
  BY <1>1 DEF TokensOf

\* Every step keeps the caches with their trackers.
LEMMA CacheStep ==
    ASSUME CacheInv, CallsOK, TrackerInv, NEW t \in Threads, Begin(t) \/ Step(t)
    PROVE  CacheInv'
<1>0. tracking' \in [Sessions -> Seq(TrackedFaces)]
  BY TrackerStep DEF TrackerInv
<1>1. CASE Begin(t) \/ Serialize(t) \/ View(t) \/ Read(t) \/ Deliver(t) \/ UpdateWithSnapshot(t)
             \/ GetResults(t) \/ Finish(t) \/ Reset(t)
             \/ Extract(t) \/ ExtractAligned(t) \/ TakeFeature(t) \/ Leave(t)
  <2>1. UNCHANGED <<holder, tracking, cache>>
    BY <1>1 DEF Begin, Serialize, View, Read, Deliver, UpdateWithSnapshot, GetResults, Finish, Reset,
                Extract, ExtractAligned, TakeFeature, Leave, caches
  <2>2. pc'[t] \notin {"track", "fill"}
    BY <1>1 DEF Begin, Serialize, View, Read, Deliver, UpdateWithSnapshot, GetResults, Finish, Reset,
                Extract, ExtractAligned, TakeFeature, Leave, Return, Goto, CallsOK
  <2>3. CachesTyped' /\ CachesFollowTracker' /\ \A s \in Sessions : Follows(s)' <=> Follows(s)
    BY <2>1 DEF CacheInv, CachesTyped, CachesFollowTracker, TokensOf, Follows
  <2> QED
    BY <2>1, <2>2, <2>3, CacheKept DEF Tracking
<1>2. CASE Lock(t)
  <2>1. PICK s \in Sessions : s = Session(t) /\ Session(t)' = s
    <3>1. call'[t].target = call[t].target
      BY <1>2, OvertakeTyped DEF Lock
    <3> QED
      BY <1>2, <3>1, SessionTyped DEF Lock, Session, Target
  <2>2. /\ holder[s] = Nobody /\ holder' = [holder EXCEPT ![s] = t] /\ cache' = [cache EXCEPT ![s] = <<>>]
        /\ UNCHANGED tracking /\ pc' = [pc EXCEPT ![t] = "track"]
    BY <1>2, <2>1 DEF Lock, Goto
  <2>3. /\ holder'[s] = t /\ cache'[s] = <<>> /\ pc'[t] = "track"
        /\ \A x \in Sessions \ {s} : holder'[x] = holder[x] /\ cache'[x] = cache[x]
    BY <2>2 DEF CacheInv, CachesTyped, CallsOK
  <2>4. CachesTyped'
    <3>1. <<>> \in Seq(Tokens)
      OBVIOUS
    <3> QED
      BY <2>2, <3>1 DEF CacheInv, CachesTyped
  <2>5. CachesFollowTracker'
    BY <2>2, <2>3, SessionAssumption DEF CacheInv, CachesFollowTracker, TokensOf
  <2>6. \A x \in Sessions \ {s} : Follows(x) => Follows(x)'
    BY <2>2, <2>3 DEF Follows, TokensOf
  <2> QED
    BY <1>2, <2>1, <2>2, <2>3, <2>4, <2>5, <2>6, CacheKept DEF Step, Tracking
<1>3. CASE Track(t)
  <2>1. PICK s \in Sessions : s = Session(t) /\ Session(t)' = s
    BY <1>3, SessionTyped DEF Track, Session, Target
  <2>2. /\ holder[s] = t /\ cache[s] = <<>>
        /\ UNCHANGED <<holder, cache>> /\ pc' = [pc EXCEPT ![t] = "fill"]
        /\ \E faces : tracking' = [tracking EXCEPT ![s] = faces]
    BY <1>3, <2>1 DEF Track, Goto, CacheInv, Tracking
  <2>3. pc'[t] = "fill" /\ \A x \in Sessions \ {s} : tracking'[x] = tracking[x]
    BY <2>2 DEF CacheInv, CachesTyped, CallsOK
  <2>4. CachesTyped'
    BY <1>0, <2>2 DEF CacheInv, CachesTyped
  <2>5. CachesFollowTracker'
    BY <2>2, <2>3, SessionAssumption DEF CacheInv, CachesFollowTracker, TokensOf
  <2>6. \A x \in Sessions \ {s} : Follows(x) => Follows(x)'
    BY <2>2, <2>3 DEF Follows, TokensOf
  <2>7. Follows(s)'
    <3>1. Len(cache'[s]) = 0 /\ Len(tracking'[s]) \in Nat
      BY <1>0, <2>2
    <3> QED
      BY <3>1 DEF Follows
  <2> QED
    BY <1>3, <2>1, <2>2, <2>3, <2>4, <2>5, <2>6, <2>7, CacheKept DEF Step, Tracking
<1>4. CASE Fail(t)
  <2>1. PICK s \in Sessions : s = Session(t)
    BY <1>4, SessionTyped DEF Fail
  <2>2. /\ holder[s] = t /\ cache[s] = <<>>
        /\ holder' = [holder EXCEPT ![s] = Nobody] /\ UNCHANGED cache /\ pc' = [pc EXCEPT ![t] = "idle"]
        /\ \E faces : tracking' = [tracking EXCEPT ![s] = faces]
    BY <1>4, <2>1 DEF Fail, Return, Goto, CacheInv, Tracking
  <2>3. /\ pc'[t] = "idle" /\ holder'[s] = Nobody
        /\ \A x \in Sessions \ {s} : tracking'[x] = tracking[x] /\ holder'[x] = holder[x]
    BY <2>2 DEF CacheInv, CachesTyped, CallsOK
  <2>4. CachesTyped'
    BY <1>0, <2>2 DEF CacheInv, CachesTyped
  <2>5. CachesFollowTracker'
    BY <2>2, <2>3 DEF CacheInv, CachesFollowTracker, TokensOf
  <2>6. \A x \in Sessions \ {s} : Follows(x) => Follows(x)'
    BY <2>2, <2>3 DEF Follows, TokensOf
  <2> QED
    BY <1>4, <2>1, <2>2, <2>3, <2>4, <2>5, <2>6, CacheKept DEF Step, Tracking
<1>5. CASE ClearTrackingFace(t)
  <2>1. /\ tracking' = [tracking EXCEPT ![Target(t)] = <<>>]
        /\ UNCHANGED <<holder, cache>> /\ pc'[t] = "idle"
    BY <1>5 DEF ClearTrackingFace, Return, Goto, CallsOK
  <2>2. \A s \in Sessions : tracking'[s] \in {tracking[s], <<>>}
    BY <2>1 DEF CacheInv, CachesTyped
  <2>3. CachesTyped'
    BY <1>0, <2>1 DEF CacheInv, CachesTyped
  <2>4. CachesFollowTracker'
    <3> SUFFICES ASSUME NEW s \in Sessions, holder[s] = Nobody, tracking'[s] # <<>>
                 PROVE  cache'[s] \in {TokensOf(tracking'[s]), <<>>}
      BY <2>1 DEF CachesFollowTracker
    <3>1. tracking'[s] = tracking[s] /\ cache'[s] = cache[s]
      BY <2>1, <2>2
    <3> QED
      BY <3>1 DEF CacheInv, CachesFollowTracker
  <2>5. \A s \in Sessions : Follows(s) => Follows(s)'
    <3> SUFFICES ASSUME NEW s \in Sessions, Follows(s) PROVE Follows(s)'
      OBVIOUS
    <3>1. cache'[s] = cache[s]
      BY <2>1
    <3>2. CASE tracking'[s] = tracking[s]
      BY <3>1, <3>2 DEF Follows, TokensOf
    <3>3. CASE tracking'[s] = <<>>
      BY <3>1, <3>3 DEF Follows
    <3> QED
      BY <2>2, <3>2, <3>3
  <2> QED
    BY <1>5, <2>1, <2>3, <2>4, <2>5, CacheKept DEF Step, Tracking
<1>6. CASE Process(t)
  <2>1. UNCHANGED <<holder, cache>> /\ pc'[t] = "idle"
    BY <1>6 DEF Process, Return, Goto, CallsOK
  <2>2. \A s \in Sessions : /\ TokensOf(tracking[s])' = TokensOf(tracking[s])
                            /\ Len(tracking'[s]) = Len(tracking[s])
    BY <1>6, ProcessOwned, SameTokens DEF CacheInv
  <2>3. \A s \in Sessions : tracking'[s] # <<>> <=> tracking[s] # <<>>
    <3> SUFFICES ASSUME NEW s \in Sessions PROVE tracking'[s] # <<>> <=> tracking[s] # <<>>
      OBVIOUS
    <3>1. tracking[s] \in Seq(TrackedFaces) /\ tracking'[s] \in Seq(TrackedFaces)
      BY <1>0 DEF CacheInv, CachesTyped
    <3>2. \A q \in Seq(TrackedFaces) : q = <<>> <=> Len(q) = 0
      OBVIOUS
    <3> QED
      BY <2>2, <3>1, <3>2
  <2>4. CachesTyped'
    BY <1>0, <2>1 DEF CacheInv, CachesTyped
  <2>5. CachesFollowTracker' /\ \A s \in Sessions : Follows(s) => Follows(s)'
    BY <2>1, <2>2, <2>3 DEF CacheInv, CachesFollowTracker, Follows
  <2> QED
    BY <1>6, <2>1, <2>4, <2>5, CacheKept DEF Step, Tracking
<1>7. CASE Fill(t)
  <2>1. PICK s \in Sessions : s = Session(t) /\ Session(t)' = s
    BY <1>7, SessionTyped DEF Fill, Session, Target
  <2>2. holder[s] = t /\ Follows(s) /\ UNCHANGED tracking
    BY <1>7, <2>1 DEF Fill, CacheInv, Tracking
  <2>3. CASE Len(cache[s]) + 1 <= Len(tracking[s])
    <3>1. /\ cache' = [cache EXCEPT ![s] = Append(@, TokensOf(tracking[s])[Len(cache[s]) + 1])]
          /\ UNCHANGED <<holder, pc>>
      BY <1>7, <2>1, <2>3 DEF Fill
    <3>2. /\ cache'[s] = Append(cache[s], TokensOf(tracking[s])[Len(cache[s]) + 1])
          /\ \A x \in Sessions \ {s} : cache'[x] = cache[x]
      BY <3>1 DEF CacheInv, CachesTyped
    <3>3. Follows(s)'
      BY <2>2, <2>3, <3>2, FillFollows
    <3>4. CachesTyped'
      <4>1. /\ cache[s] \in Seq(Tokens) /\ Len(cache[s]) \in Nat
            /\ tracking[s] \in Seq(TrackedFaces) /\ Len(tracking[s]) \in Nat
        BY DEF CacheInv, CachesTyped
      <4>2. TokensOf(tracking[s]) \in Seq(Tokens) /\ Len(TokensOf(tracking[s])) = Len(tracking[s])
        BY <4>1, TokensTyped
      <4>3. PICK k \in Tokens : k = TokensOf(tracking[s])[Len(cache[s]) + 1]
        BY <2>3, <4>1, <4>2
      <4>4. Append(cache[s], k) \in Seq(Tokens)
        BY <4>1
      <4> QED
        BY <2>2, <3>1, <4>3, <4>4 DEF CacheInv, CachesTyped
    <3>5. CachesFollowTracker'
      BY <2>2, <3>1, <3>2, SessionAssumption DEF CacheInv, CachesFollowTracker, TokensOf
    <3>6. \A x \in Sessions \ {s} : Follows(x) => Follows(x)'
      BY <2>2, <3>2 DEF Follows, TokensOf
    <3>7. pc'[t] = "fill"
      BY <1>7, <3>1 DEF Fill
    <3> QED
      BY <1>7, <2>1, <2>2, <3>1, <3>2, <3>3, <3>4, <3>5, <3>6, <3>7, CacheKept DEF Step, Tracking
  <2>4. CASE ~(Len(cache[s]) + 1 <= Len(tracking[s]))
    <3>1. /\ holder' = [holder EXCEPT ![s] = Nobody] /\ UNCHANGED cache
          /\ pc' = [pc EXCEPT ![t] = "view"]
      BY <1>7, <2>1, <2>4 DEF Fill, Goto
    <3>2. pc'[t] = "view" /\ holder'[s] = Nobody /\ \A x \in Sessions \ {s} : holder'[x] = holder[x]
      BY <3>1 DEF CacheInv, CachesTyped, CallsOK
    <3>3. tracking[s] # <<>> => cache[s] = TokensOf(tracking[s])
      BY <2>2, <2>4, FillFollows
    <3>4. CachesTyped'
      BY <2>2, <3>1 DEF CacheInv, CachesTyped
    <3>5. CachesFollowTracker'
      BY <2>2, <3>1, <3>2, <3>3 DEF CacheInv, CachesFollowTracker, TokensOf
    <3>6. \A x \in Sessions : Follows(x) => Follows(x)'
      BY <2>2, <3>1 DEF Follows, TokensOf
    <3> QED
      BY <1>7, <2>2, <3>1, <3>2, <3>4, <3>5, <3>6, CacheKept DEF Step, Tracking
  <2> QED
    BY <2>3, <2>4
<1> QED
  BY <1>1, <1>2, <1>3, <1>4, <1>5, <1>6, <1>7 DEF Step

-----------------------------------------------------------------------------
(* Features. *)

Extracts(p, t, s) == \E op \in p[t].operations : op[1] \in Extractions /\ op[2] = s

\* On each session one thread extracts features, whatever the others do with it.
OneExtractor ==
    \A p \in Plans, s \in Sessions, t, u \in Threads :
        Extracts(p, t, s) /\ Extracts(p, u, s) => t = u

\* A thread that is about to copy a feature finds the one it has extracted.
Finds(t) ==
    /\ pc[t] # "idle" /\ Operation(t) \in Extractions => Extracts(plan, t, Target(t))
    /\ pc[t] # "idle" /\ Operation(t) # "extract" => call[t].face = Nobody
    /\ pc[t] = "run" => ~call[t].stale
    /\ pc[t] = "take" => /\ Operation(t) = "extract" /\ ~call[t].stale
                         /\ feature[Target(t)] = call[t].face

FeatureInv ==
    /\ feature = [s \in Sessions |-> feature[s]]
    /\ \A t \in Threads : Finds(t)
    /\ OwnFeatures

\* Another thread's step does not disturb a thread unless it overtakes it or
\* extracts on its session.
LEMMA FindsStill ==
    ASSUME CallsOK, NEW u \in Threads, Finds(u), UNCHANGED plan, pc'[u] = pc[u],
           call'[u].operation = call[u].operation, call'[u].target = call[u].target,
           call'[u].face = call[u].face,
           pc[u] \in {"run", "take"} => call'[u].stale = call[u].stale,
           pc[u] = "take" => feature'[Target(u)] = feature[Target(u)]
    PROVE  Finds(u)'
BY DEF Finds, Operation, Target

\* The record of the call that begins.
LEMMA BeginFinds ==
    ASSUME CallsOK, NEW t \in Threads, Begin(t)
    PROVE  Finds(t)'
<1>1. PICK op \in plan[t].operations :
        /\ \E f \in IF op[1] \in Tracks THEN Frames ELSE {Nobody},
              face \in IF op[1] = "extract" THEN Kept ELSE {Nobody} :
             call' = [call EXCEPT ![t] = [NoCall EXCEPT !.operation = op[1], !.target = op[2],
                                                        !.frame = f, !.face = face]]
        /\ pc' = [pc EXCEPT ![t] = CASE op[1] = "update" -> "serialize" [] op[1] = "snapshot" -> "lock"
                                     [] OTHER -> "run"]
  BY DEF Begin, Goto
<1>2. PICK f \in IF op[1] \in Tracks THEN Frames ELSE {Nobody},
           face \in IF op[1] = "extract" THEN Kept ELSE {Nobody} :
        call' = [call EXCEPT ![t] = [NoCall EXCEPT !.operation = op[1], !.target = op[2],
                                                   !.frame = f, !.face = face]]
  BY <1>1
<1>3. /\ call'[t].operation = op[1] /\ call'[t].target = op[2] /\ call'[t].face = face
      /\ ~call'[t].stale
  BY <1>2 DEF CallsOK, NoCall
<1>4. pc'[t] # "take" /\ UNCHANGED plan
  BY <1>1 DEF CallsOK, Begin
<1>5. op[1] # "extract" => face = Nobody
  OBVIOUS
<1> QED
  BY <1>3, <1>4, <1>5 DEF Finds, Extracts, Operation, Target

\* Every step keeps what the threads find.
LEMMA FeatureStep ==
    ASSUME OneExtractor, FeatureInv, CallsOK, NEW t \in Threads, Begin(t) \/ Step(t)
    PROVE  FeatureInv'
<1>0. UNCHANGED plan
  BY DEF Begin, Step, Serialize, Lock, Track, Fail, Fill, View, Read, Deliver, Process,
         ClearTrackingFace, Extract, ExtractAligned, TakeFeature, Leave, UpdateWithSnapshot,
         GetResults, Finish, Reset
<1>1. CASE Begin(t)
  <2>1. \E c : call' = [call EXCEPT ![t] = c]
    BY <1>1 DEF Begin
  <2>2. \A u \in Threads \ {t} : call'[u] = call[u] /\ pc'[u] = pc[u]
    BY <1>1, <2>1 DEF Begin, Goto, CallsOK
  <2>3. UNCHANGED <<feature, last>>
    BY <1>1 DEF Begin, caches
  <2>4. \A u \in Threads \ {t} : Finds(u)'
    BY <1>0, <2>2, <2>3, FindsStill DEF FeatureInv
  <2> QED
    BY <1>1, <2>3, <2>4, BeginFinds DEF FeatureInv, OwnFeatures
<1>2. CASE Extract(t) \/ ExtractAligned(t)
  <2>1. /\ pc[t] = "run" /\ Operation(t) \in Extractions
        /\ UNCHANGED last /\ Overtake(t, {"take"})
        /\ \/ pc' = [pc EXCEPT ![t] = "leave"] /\ feature' = [feature EXCEPT ![Target(t)] = Nobody]
           \/ /\ pc' = [pc EXCEPT ![t] = "take"] /\ Operation(t) = "extract"
              /\ feature' = [feature EXCEPT ![Target(t)] = call[t].face]
    BY <1>2 DEF Extract, ExtractAligned, Runs, Goto, Extractions
  <2>2. PICK s \in Sessions : s = Target(t) /\ Session(t) = s /\ Extracts(plan, t, s)
    BY <2>1, SessionAssumption DEF CallsOK, Extractions, CaptureNames, FeatureInv, Finds, Session
  <2>3. /\ \A u \in Threads \ {t} : pc'[u] = pc[u]
        /\ \A x \in Sessions \ {s} : feature'[x] = feature[x]
        /\ feature' = [x \in Sessions |-> feature'[x]]
    BY <2>1, <2>2 DEF CallsOK, FeatureInv
  <2>4. ASSUME NEW u \in Threads, u # t PROVE Finds(u)'
    <3>1. CASE pc[u] = "take"
      <4>1. Target(u) \in Sessions /\ Session(u) = Target(u) /\ Extracts(plan, u, Target(u))
        BY <3>1, SessionAssumption DEF FeatureInv, Finds, CallsOK, CaptureNames, Extractions, Session
      <4>2. Target(u) # s
        BY <2>2, <2>4, <4>1 DEF OneExtractor, CallsOK
      <4>3. call'[u].stale = call[u].stale /\ feature'[Target(u)] = feature[Target(u)]
        BY <2>1, <2>2, <2>3, <4>1, <4>2, OvertakeTyped
      <4> QED
        BY <1>0, <2>1, <2>3, <2>4, <4>3, FindsStill, OvertakeTyped DEF FeatureInv
    <3>2. CASE pc[u] # "take"
      <4>1. call'[u].stale = call[u].stale
        BY <2>1, <3>2, OvertakeTyped
      <4> QED
        BY <1>0, <2>1, <2>3, <2>4, <3>2, <4>1, FindsStill, OvertakeTyped DEF FeatureInv
    <3> QED
      BY <3>1, <3>2
  <2>5. Finds(t)'
    <3>1. /\ call'[t].operation = call[t].operation /\ call'[t].target = call[t].target
          /\ call'[t].face = call[t].face /\ call'[t].stale = call[t].stale
      BY <2>1, OvertakeTyped
    <3>2. pc'[t] \in {"take", "leave"}
          /\ pc'[t] = "take" => Operation(t) = "extract" /\ feature'[Target(t)] = call[t].face
      BY <2>1, <2>2 DEF CallsOK, FeatureInv
    <3> QED
      BY <1>0, <2>1, <3>1, <3>2 DEF FeatureInv, Finds, Operation, Target
  <2> QED
    BY <2>1, <2>3, <2>4, <2>5 DEF FeatureInv, OwnFeatures
<1>3. CASE Lock(t)
  <2>1. UNCHANGED <<feature, last>> /\ Overtake(t, {"view", "read"}) /\ pc' = [pc EXCEPT ![t] = "track"]
        /\ pc[t] = "lock"
    BY <1>3 DEF Lock, Goto
  <2>2. \A u \in Threads \ {t} : pc'[u] = pc[u]
    BY <2>1 DEF CallsOK
  <2>3. ASSUME NEW u \in Threads, u # t PROVE Finds(u)'
    <3>1. pc[u] \in {"run", "take"} => call'[u].stale = call[u].stale
      BY <2>1, OvertakeTyped
    <3> QED
      BY <1>0, <2>1, <2>2, <2>3, <3>1, FindsStill, OvertakeTyped DEF FeatureInv
  <2>4. Finds(t)'
    <3>1. /\ call'[t].operation = call[t].operation /\ call'[t].target = call[t].target
          /\ call'[t].face = call[t].face
      BY <2>1, OvertakeTyped
    <3>2. pc'[t] = "track"
      BY <2>1 DEF CallsOK
    <3> QED
      BY <1>0, <2>1, <3>1, <3>2 DEF FeatureInv, Finds, Operation, Target
  <2> QED
    BY <2>1, <2>3, <2>4 DEF FeatureInv, OwnFeatures
<1>4. CASE Serialize(t) \/ Track(t) \/ Fill(t) \/ View(t) \/ Read(t)
  <2>1. /\ UNCHANGED <<feature, last>> /\ pc[t] \notin {"idle", "run", "take"}
        /\ pc'[t] \notin {"idle", "run", "take"}
        /\ \A u \in Threads \ {t} : pc'[u] = pc[u] /\ call'[u] = call[u]
    BY <1>4 DEF Serialize, Track, Fill, View, Read, Goto, CallsOK, caches
  <2>2. /\ call'[t].operation = call[t].operation /\ call'[t].target = call[t].target
        /\ call'[t].face = call[t].face
    <3>1. call[t] \in CallRecords
      BY DEF CallsOK
    <3>2. CASE View(t)
      <4>1. PICK n : call' = [call EXCEPT ![t].count = n]
        BY <3>2 DEF View
      <4> QED
        BY <3>1, <4>1 DEF CallRecords, CallsOK
    <3>3. CASE Read(t)
      <4>1. PICK face : call' = [call EXCEPT ![t].read = Append(@, face)]
        BY <3>3 DEF Read
      <4> QED
        BY <3>1, <4>1 DEF CallRecords, CallsOK
    <3>4. CASE Serialize(t) \/ Track(t) \/ Fill(t)
      BY <3>4 DEF Serialize, Track, Fill
    <3> QED
      BY <1>4, <3>2, <3>3, <3>4
  <2>3. \A u \in Threads \ {t} : Finds(u)'
    BY <1>0, <2>1, FindsStill DEF FeatureInv
  <2>4. Finds(t)'
    BY <1>0, <2>1, <2>2 DEF FeatureInv, Finds, Operation, Target
  <2> QED
    BY <2>1, <2>3, <2>4 DEF FeatureInv, OwnFeatures
<1>5. CASE Fail(t) \/ Process(t) \/ ClearTrackingFace(t) \/ UpdateWithSnapshot(t) \/ GetResults(t)
             \/ Finish(t) \/ Reset(t) \/ Leave(t) \/ Deliver(t) \/ TakeFeature(t)
  <2>1. PICK result : Return(t, result) /\ UNCHANGED feature
    BY <1>5 DEF Fail, Process, ClearTrackingFace, UpdateWithSnapshot, GetResults, Finish, Reset, Leave,
                Deliver, TakeFeature, caches
  <2>2. /\ pc'[t] = "idle" /\ \A u \in Threads \ {t} : pc'[u] = pc[u] /\ call'[u] = call[u]
        /\ last'[t] = result /\ \A u \in Threads \ {t} : last'[u] = last[u]
    BY <2>1 DEF Return, Goto, CallsOK
  <2>3. \A u \in Threads \ {t} : Finds(u)'
    BY <1>0, <2>1, <2>2, FindsStill DEF FeatureInv
  <2>4. Finds(t)'
    BY <2>2 DEF Finds
  <2>5. last'[t].face # Nobody => last'[t].read = <<last'[t].face>>
    <3>1. CASE Deliver(t)
      <4>1. last' = [last EXCEPT ![t] = call[t]] /\ pc[t] = "read"
        BY <3>1 DEF Deliver, Return
      <4>2. Operation(t) # "extract"
        BY <4>1 DEF CallsOK, Tracks, Extracting
      <4> QED
        BY <4>1, <4>2 DEF FeatureInv, Finds, CallsOK
    <3>2. CASE TakeFeature(t)
      <4>1. PICK found \in {feature[Target(t)]} \cup IF call[t].stale THEN {Garbage} ELSE {} :
              last' = [last EXCEPT ![t] = [call[t] EXCEPT !.read = <<found>>]] /\ pc[t] = "take"
        BY <3>2 DEF TakeFeature, Return
      <4>2. found = call[t].face
        BY <4>1 DEF FeatureInv, Finds
      <4>3. call[t] \in CallRecords
        BY DEF CallsOK
      <4>4. last'[t].face = call[t].face /\ last'[t].read = <<found>>
        BY <4>1, <4>3 DEF CallsOK, CallRecords
      <4> QED
        BY <4>2, <4>4
    <3>3. CASE Fail(t) \/ Process(t) \/ ClearTrackingFace(t) \/ UpdateWithSnapshot(t) \/ GetResults(t)
                 \/ Finish(t) \/ Reset(t) \/ Leave(t)
      <4>1. last' = [last EXCEPT ![t] = last[t]]
        BY <3>3 DEF Fail, Process, ClearTrackingFace, UpdateWithSnapshot, GetResults, Finish, Reset,
                    Leave, Return
      <4> QED
        BY <4>1 DEF FeatureInv, OwnFeatures, CallsOK
    <3> QED
      BY <1>5, <3>1, <3>2, <3>3
  <2>6. OwnFeatures'
    BY <2>2, <2>5 DEF FeatureInv, OwnFeatures
  <2> QED
    BY <2>1, <2>3, <2>4, <2>6 DEF FeatureInv
<1> QED
  BY <1>1, <1>2, <1>3, <1>4, <1>5 DEF Step

-----------------------------------------------------------------------------
(* Faces. *)

\* A session is tracked and cleared by one thread, or through one capture session.
Changes == Tracks \cup {"clear"}
SessionFor(g) == IF g \in Captures THEN SessionOf[g] ELSE g
OneOwner ==
    \A p \in Plans, t, u \in Threads :
        \A op \in p[t].operations, other \in p[u].operations :
            op[1] \in Changes /\ other[1] \in Changes /\ SessionFor(op[2]) = SessionFor(other[2]) =>
                t = u \/ (op[2] = other[2] /\ op[2] \in Captures)

\* A call planned by its thread.
Planned(t) == \E op \in plan[t].operations : op[1] = Operation(t) /\ op[2] = Target(t)

\* A call on a frame, from when it locks its session until it has its faces.
InFrame(t) == pc[t] \in {"lock", "track", "fill", "view", "read"}

\* A sequence begun with the faces of a frame.
Begins(q, f) == Len(q) <= Len(FacesOf(f)) /\ \A i \in 1..Len(q) : q[i] = FacesOf(f)[i]

\* The frame of a call is on its way through the tracker, the caches and the copy.
FrameOK(t) ==
    LET f == call[t].frame
        s == Session(t)
    IN  /\ pc[t] # "idle" /\ Operation(t) \notin Tracks => f = Nobody
        /\ InFrame(t) \/ pc[t] = "serialize" => ~call[t].stale
        /\ pc[t] \in {"serialize", "lock", "track", "fill", "view"} => call[t].read = <<>>
        /\ pc[t] = "fill" => TokensOf(tracking[s]) = FacesOf(f) /\ Begins(cache[s], f)
        /\ pc[t] = "view" => TokensOf(tracking[s]) = FacesOf(f) /\ cache[s] = FacesOf(f)
        /\ pc[t] = "read" =>
             /\ cache[s] = FacesOf(f) /\ call[t].count = Len(FacesOf(f))
             /\ Begins(call[t].read, f)

SerialInv ==
    /\ serial = [c \in Captures |-> serial[c]]
    /\ \A t \in Threads : pc[t] # "idle" => Planned(t)
    /\ \A t \in Threads : InFrame(t) /\ Target(t) \in Captures => serial[Target(t)] = t

FrameInv ==
    /\ \A t \in Threads : FrameOK(t)
    /\ OwnFaces

\* A call that begins is planned.
LEMMA BeginPlanned ==
    ASSUME CallsOK, NEW t \in Threads, Begin(t)
    PROVE  /\ Planned(t)' /\ FrameOK(t)'
           /\ ~(InFrame(t)' /\ Target(t)' \in Captures)
           /\ UNCHANGED <<plan, serial, tracking, cache, last>>
           /\ \A u \in Threads \ {t} : pc'[u] = pc[u] /\ call'[u] = call[u]
<1>1. PICK op \in plan[t].operations :
        /\ \E f \in IF op[1] \in Tracks THEN Frames ELSE {Nobody},
              face \in IF op[1] = "extract" THEN Kept ELSE {Nobody} :
             call' = [call EXCEPT ![t] = [NoCall EXCEPT !.operation = op[1], !.target = op[2],
                                                        !.frame = f, !.face = face]]
        /\ pc' = [pc EXCEPT ![t] = CASE op[1] = "update" -> "serialize" [] op[1] = "snapshot" -> "lock"
                                     [] OTHER -> "run"]
  BY DEF Begin, Goto
<1>2. PICK f \in IF op[1] \in Tracks THEN Frames ELSE {Nobody},
           face \in IF op[1] = "extract" THEN Kept ELSE {Nobody} :
        call' = [call EXCEPT ![t] = [NoCall EXCEPT !.operation = op[1], !.target = op[2],
                                                   !.frame = f, !.face = face]]
  BY <1>1
<1>3. /\ call'[t].operation = op[1] /\ call'[t].target = op[2] /\ call'[t].frame = f
      /\ ~call'[t].stale /\ call'[t].read = <<>>
      /\ \A u \in Threads \ {t} : call'[u] = call[u]
  BY <1>2 DEF CallsOK, NoCall
<1>4. /\ pc'[t] \in {"serialize", "lock", "run"} /\ (pc'[t] = "lock" => op[1] = "snapshot")
      /\ \A u \in Threads \ {t} : pc'[u] = pc[u]
  BY <1>1 DEF CallsOK
<1>5. op[1] \notin Tracks => f = Nobody
  OBVIOUS
<1>6. UNCHANGED <<plan, serial, tracking, cache, last>>
  BY DEF Begin, caches
<1>7. op[1] = "snapshot" => op[2] \notin Captures
  BY SessionAssumption DEF CallsOK
<1> QED
  BY <1>3, <1>4, <1>5, <1>6, <1>7 DEF Planned, FrameOK, InFrame, Operation, Target

\* The calls on a capture session hold its mutex, one after the other.
LEMMA SerialStep ==
    ASSUME SerialInv, CallsOK, NEW t \in Threads, Begin(t) \/ Step(t)
    PROVE  SerialInv'
<1>1. CASE Begin(t)
  BY <1>1, BeginPlanned DEF SerialInv, Planned, InFrame, Operation, Target
<1>2. CASE Lock(t) \/ Extract(t) \/ ExtractAligned(t)
  <2>1. /\ UNCHANGED <<plan, serial>>
        /\ \A u \in Threads : /\ call'[u].operation = call[u].operation
                              /\ call'[u].target = call[u].target
        /\ \A u \in Threads : pc'[u] # "idle" => pc[u] # "idle"
        /\ \A u \in Threads : InFrame(u)' => InFrame(u)
    BY <1>2, OvertakeTyped DEF Lock, Extract, ExtractAligned, Runs, Goto, CallsOK, InFrame
  <2> QED
    BY <2>1 DEF SerialInv, Planned, Operation, Target
<1>3. CASE Serialize(t) \/ Track(t) \/ Fill(t) \/ View(t) \/ Read(t)
  <2>1. /\ UNCHANGED plan
        /\ \A u \in Threads \ {t} : call'[u] = call[u] /\ pc'[u] = pc[u]
        /\ pc[t] # "idle"
    BY <1>3 DEF Serialize, Track, Fill, View, Read, Goto, CallsOK
  <2>2. call'[t].operation = call[t].operation /\ call'[t].target = call[t].target
    <3>1. call[t] \in CallRecords
      BY DEF CallsOK
    <3>2. CASE View(t)
      <4>1. PICK n : call' = [call EXCEPT ![t].count = n]
        BY <3>2 DEF View
      <4> QED
        BY <3>1, <4>1 DEF CallRecords, CallsOK
    <3>3. CASE Read(t)
      <4>1. PICK face : call' = [call EXCEPT ![t].read = Append(@, face)]
        BY <3>3 DEF Read
      <4> QED
        BY <3>1, <4>1 DEF CallRecords, CallsOK
    <3>4. CASE Serialize(t) \/ Track(t) \/ Fill(t)
      BY <3>4 DEF Serialize, Track, Fill
    <3> QED
      BY <1>3, <3>2, <3>3, <3>4
  <2>3. CASE Serialize(t)
    <3>1. /\ serial' = [serial EXCEPT ![Target(t)] = t] /\ serial[Target(t)] = Nobody
          /\ \A u \in Threads : u # Nobody
      BY <2>3, SessionAssumption DEF Serialize
    <3>2. serial' = [c \in Captures |-> serial'[c]]
      BY <3>1 DEF SerialInv
    <3>3. \A u \in Threads \ {t} : InFrame(u)' => InFrame(u)
      BY <2>1 DEF InFrame
    <3> QED
      BY <2>1, <2>2, <3>1, <3>2, <3>3 DEF SerialInv, Planned, Operation, Target
  <2>4. CASE ~Serialize(t)
    <3>1. UNCHANGED serial /\ (InFrame(t)' => InFrame(t)) /\ \A u \in Threads \ {t} : InFrame(u)' => InFrame(u)
      BY <1>3, <2>1, <2>4 DEF Track, Fill, View, Read, InFrame
    <3> QED
      BY <2>1, <2>2, <3>1 DEF SerialInv, Planned, Operation, Target
  <2> QED
    BY <2>3, <2>4
<1>4. CASE Fail(t) \/ Process(t) \/ ClearTrackingFace(t) \/ UpdateWithSnapshot(t) \/ GetResults(t)
             \/ Finish(t) \/ Reset(t) \/ Leave(t) \/ Deliver(t) \/ TakeFeature(t)
  <2>1. PICK result : Return(t, result) /\ UNCHANGED plan
    BY <1>4 DEF Fail, Process, ClearTrackingFace, UpdateWithSnapshot, GetResults, Finish, Reset, Leave,
                Deliver, TakeFeature
  <2>2. /\ pc'[t] = "idle" /\ \A u \in Threads \ {t} : pc'[u] = pc[u] /\ call'[u] = call[u]
        /\ serial' = [c \in Captures |-> IF c = Target(t) THEN Nobody ELSE serial[c]]
    BY <2>1 DEF Return, Goto, CallsOK, Unserialize
  <2>3. Target(t) \in Captures => serial[Target(t)] \in {t, Nobody}
    <3>1. CASE Fail(t) \/ Deliver(t)
      BY <3>1 DEF Fail, Deliver, SerialInv, InFrame
    <3>2. CASE UpdateWithSnapshot(t) \/ GetResults(t) \/ Finish(t) \/ Reset(t)
      BY <3>2 DEF UpdateWithSnapshot, GetResults, Finish, Reset
    <3>3. CASE Process(t) \/ ClearTrackingFace(t)
      BY <3>3, SessionAssumption DEF Process, ClearTrackingFace, Runs, CallsOK, CaptureNames
    <3>4. CASE Leave(t) \/ TakeFeature(t)
      BY <3>4, SessionAssumption DEF Leave, TakeFeature, CallsOK, CaptureNames, Extractions
    <3> QED
      BY <1>4, <3>1, <3>2, <3>3, <3>4
  <2>4. ASSUME NEW u \in Threads, InFrame(u)', Target(u)' \in Captures
        PROVE  serial'[Target(u)'] = u
    <3>1. u # t
      BY <2>2, <2>4 DEF InFrame
    <3>2. InFrame(u) /\ Target(u)' = Target(u) /\ serial[Target(u)] = u
      BY <2>2, <2>4, <3>1 DEF InFrame, Target, SerialInv
    <3>3. Target(u) # Target(t)
      BY <2>3, <2>4, <3>1, <3>2, SessionAssumption
    <3> QED
      BY <2>2, <2>4, <3>2, <3>3
  <2> QED
    BY <2>1, <2>2, <2>4 DEF SerialInv, Planned, Operation, Target
<1> QED
  BY <1>1, <1>2, <1>3, <1>4 DEF Step

\* While a frame is on its way, nobody else tracks or clears its session.
LEMMA Exclusive ==
    ASSUME OneOwner, SerialInv, CallsOK, NEW t \in Threads, NEW u \in Threads, t # u, InFrame(u),
           InFrame(t) \/ (pc[t] = "run" /\ Operation(t) = "clear")
    PROVE  Session(t) # Session(u)
<1> SUFFICES ASSUME Session(t) = Session(u) PROVE FALSE
  OBVIOUS
<1>1. PICK op \in plan[t].operations : op[1] = Operation(t) /\ op[2] = Target(t)
  BY DEF SerialInv, Planned, InFrame
<1>2. PICK other \in plan[u].operations : other[1] = Operation(u) /\ other[2] = Target(u)
  BY DEF SerialInv, Planned, InFrame
<1>3. op[1] \in Changes /\ other[1] \in Changes
  BY <1>1, <1>2 DEF CallsOK, InFrame, Extracting, Changes
<1>4. SessionFor(op[2]) = SessionFor(other[2])
  BY <1>1, <1>2 DEF SessionFor, Session
<1>5. Target(t) = Target(u) /\ Target(t) \in Captures
  BY <1>1, <1>2, <1>3, <1>4 DEF OneOwner, CallsOK
<1>6. InFrame(t)
  BY <1>5, SessionAssumption DEF CallsOK, CaptureNames
<1> QED
  BY <1>5, <1>6 DEF SerialInv

\* A thread's frame is not disturbed by steps that leave its session's faces.
LEMMA FrameStill ==
    ASSUME CallsOK, NEW u \in Threads, FrameOK(u), pc'[u] = pc[u],
           call'[u].operation = call[u].operation, call'[u].target = call[u].target,
           call'[u].frame = call[u].frame, call'[u].read = call[u].read,
           call'[u].count = call[u].count,
           InFrame(u) \/ pc[u] = "serialize" => call'[u].stale = call[u].stale,
           pc[u] \in {"fill", "view", "read"} => cache'[Session(u)] = cache[Session(u)],
           pc[u] \in {"fill", "view"} => TokensOf(tracking[Session(u)])' = TokensOf(tracking[Session(u)])
    PROVE  FrameOK(u)'
<1>1. Session(u)' = Session(u) /\ Operation(u)' = Operation(u)
  BY DEF Session, Operation, Target
<1>2. \A q, f : Begins(q, f)' <=> Begins(q, f)
  BY DEF Begins
<1> QED
  BY <1>1, <1>2 DEF FrameOK, InFrame

\* The tracker's tokens are those of the frame it has tracked.
LEMMA TracksFrame ==
    ASSUME CallsOK, CachesTyped, NEW t \in Threads, Track(t)
    PROVE  TokensOf(tracking'[Session(t)]) = FacesOf(call[t].frame)
<1>1. PICK s \in Sessions, f \in Frames : s = Session(t) /\ f = call[t].frame
  BY SessionTyped DEF Track, CallsOK, Extracting
<1> DEFINE faces == [i \in DOMAIN IdsIn[f] |-> Face(IdsIn[f][i], f, ActionsOf(s, IdsIn[f][i]))]
<1>2. tracking'[s] = faces
  BY <1>1 DEF Track, Tracked, CachesTyped
<1>3. \A i \in DOMAIN IdsIn[f] : faces[i].id = IdsIn[f][i] /\ faces[i].frame = f
  BY DEF Face
<1>4. DOMAIN faces = DOMAIN IdsIn[f]
  OBVIOUS
<1> HIDE DEF faces
<1> QED
  BY <1>1, <1>2, <1>3, <1>4 DEF TokensOf, FacesOf

\* The faces of a frame are tokens.
LEMMA FacesTyped ==
    ASSUME NEW f \in Frames
    PROVE  FacesOf(f) \in Seq(Tokens) /\ Len(FacesOf(f)) \in Nat /\ DOMAIN FacesOf(f) = 1..Len(FacesOf(f))
<1>1. IdsIn[f] \in Seq(Int)
  BY SessionAssumption
<1>2. PICK n \in Nat : DOMAIN IdsIn[f] = 1..n /\ \A i \in 1..n : IdsIn[f][i] \in Int
  BY <1>1
<1>3. \A i \in 1..n : Token(IdsIn[f][i], f, i) \in Tokens
  BY <1>2 DEF Token, Tokens
<1>4. FacesOf(f) \in [1..n -> Tokens]
  BY <1>2, <1>3 DEF FacesOf
<1> QED
  BY <1>4

\* What has been read to the end is the frame.
LEMMA BegunIsDone ==
    ASSUME NEW f \in Frames, NEW S, NEW q \in Seq(S), Begins(q, f), Len(q) = Len(FacesOf(f))
    PROVE  q = FacesOf(f)
<1>1. PICK g \in Seq(Tokens) : g = FacesOf(f)
  BY FacesTyped
<1> QED
  BY <1>1 DEF Begins

\* A sequence begun with the faces of a frame goes on with the next face.
LEMMA BegunGoesOn ==
    ASSUME NEW f \in Frames, NEW S, NEW q \in Seq(S), Begins(q, f), Len(q) < Len(FacesOf(f)),
           NEW face \in S, face = FacesOf(f)[Len(q) + 1]
    PROVE  Begins(Append(q, face), f)
<1>1. Len(FacesOf(f)) \in Nat
  BY FacesTyped
<1>2. /\ Len(Append(q, face)) = Len(q) + 1 /\ Append(q, face)[Len(q) + 1] = face
      /\ \A i \in 1..Len(q) : Append(q, face)[i] = q[i]
  OBVIOUS
<1> QED
  BY <1>1, <1>2 DEF Begins

\* The step of a thread that tracks, reads and delivers its own frame.
LEMMA OwnFrameStep ==
    ASSUME FrameInv, CacheInv, CallsOK, NEW t \in Threads,
           Serialize(t) \/ Lock(t) \/ Track(t) \/ Fill(t) \/ View(t) \/ Read(t)
    PROVE  FrameOK(t)'
<1>1. PICK s \in Sessions, f \in Frames : s = Session(t) /\ f = call[t].frame
  BY SessionTyped DEF Serialize, Lock, Track, Fill, View, Read, CallsOK, Extracting
<1>2. call[t] \in CallRecords /\ Operation(t) \in Tracks
  BY DEF Serialize, Lock, Track, Fill, View, Read, CallsOK, Extracting
<1>3. FrameOK(t)
  BY DEF FrameInv
<1>4. CASE Serialize(t)
  <2>1. call'[t] = call[t] /\ pc'[t] = "lock" /\ pc[t] = "serialize"
    BY <1>4 DEF Serialize, Goto, CallsOK
  <2> QED
    BY <1>2, <1>3, <2>1 DEF FrameOK, InFrame, Operation
<1>5. CASE Lock(t)
  <2>1. /\ call'[t].operation = call[t].operation /\ call'[t].stale = call[t].stale
        /\ call'[t].read = call[t].read
    <3>1. call'[t] = [call[t] EXCEPT !.stale = @ \/ FALSE]
      BY <1>5 DEF Lock, Overtake
    <3> QED
      BY <1>2, <3>1 DEF CallRecords
  <2>2. pc'[t] = "track" /\ pc[t] = "lock"
    BY <1>5 DEF Lock, Goto, CallsOK
  <2> QED
    BY <1>2, <1>3, <2>1, <2>2 DEF FrameOK, InFrame, Operation
<1>6. CASE Track(t)
  <2>1. call'[t] = call[t] /\ pc'[t] = "fill" /\ pc[t] = "track" /\ UNCHANGED cache
    BY <1>6 DEF Track, Goto, CallsOK
  <2>2. cache[s] = <<>>
    BY <1>1, <2>1 DEF CacheInv, Tracking
  <2>3. Begins(cache'[s], f)
    <3>1. Len(cache'[s]) = 0 /\ Len(FacesOf(f)) \in Nat
      BY <2>1, <2>2, FacesTyped
    <3> QED
      BY <3>1 DEF Begins
  <2>4. TokensOf(tracking'[s]) = FacesOf(f)
    BY <1>1, <1>6, TracksFrame DEF CacheInv
  <2>5. Session(t)' = s
    BY <1>1, <2>1 DEF Session, Target
  <2>6. TokensOf(tracking[s])' = FacesOf(f) /\ Begins(cache[s], f)'
    BY <2>3, <2>4 DEF TokensOf, FacesOf, Begins
  <2>7. call[t].read = <<>> /\ ~call[t].stale
    BY <1>3, <2>1 DEF FrameOK, InFrame
  <2> QED
    BY <1>1, <1>2, <2>1, <2>5, <2>6, <2>7 DEF FrameOK, InFrame, Operation, FacesOf, Begins
<1>7. CASE Fill(t)
  <2>1. call'[t] = call[t] /\ pc[t] = "fill" /\ UNCHANGED tracking
    BY <1>7 DEF Fill
  <2>2. TokensOf(tracking[s]) = FacesOf(f) /\ Begins(cache[s], f)
    BY <1>1, <1>3, <2>1 DEF FrameOK
  <2>3. cache[s] \in Seq(Tokens) /\ tracking[s] \in Seq(TrackedFaces)
    BY DEF CacheInv, CachesTyped
  <2>4. Len(tracking[s]) = Len(FacesOf(f)) /\ Len(cache[s]) \in Nat /\ Len(FacesOf(f)) \in Nat
    BY <2>2, <2>3, TokensTyped
  <2>5. Session(t)' = s
    BY <1>1, <2>1 DEF Session, Target
  <2>6. TokensOf(tracking[s])' = FacesOf(f)
    BY <2>1, <2>2 DEF TokensOf
  <2>7. CASE Len(cache[s]) + 1 <= Len(tracking[s])
    <3>1. pc' = pc /\ cache' = [cache EXCEPT ![s] = Append(@, TokensOf(tracking[s])[Len(cache[s]) + 1])]
      BY <1>1, <1>7, <2>7 DEF Fill
    <3>2. PICK k \in Tokens : k = FacesOf(f)[Len(cache[s]) + 1]
      BY <2>4, <2>7, FacesTyped
    <3>3. cache'[s] = Append(cache[s], k)
      BY <2>2, <3>1, <3>2 DEF CacheInv, CachesTyped
    <3>4. Begins(cache'[s], f)
      BY <2>2, <2>3, <2>4, <2>7, <3>2, <3>3, BegunGoesOn
    <3>5. pc'[t] = "fill"
      BY <2>1, <3>1
    <3>6. Begins(cache[s], f)'
      BY <3>4 DEF Begins, FacesOf
    <3> QED
      BY <1>1, <1>2, <1>3, <2>1, <2>5, <2>6, <3>4, <3>5, <3>6 DEF FrameOK, InFrame, Operation, FacesOf, Begins
  <2>8. CASE ~(Len(cache[s]) + 1 <= Len(tracking[s]))
    <3>1. pc'[t] = "view" /\ UNCHANGED cache
      BY <1>1, <1>7, <2>8 DEF Fill, Goto, CallsOK
    <3>2. Len(cache[s]) = Len(FacesOf(f))
      BY <2>2, <2>4, <2>8 DEF Begins
    <3>3. cache[s] = FacesOf(f)
      BY <2>2, <2>3, <3>2, BegunIsDone
    <3> QED
      BY <1>1, <1>2, <1>3, <2>1, <2>5, <2>6, <3>1, <3>3 DEF FrameOK, InFrame, Operation, FacesOf
  <2> QED
    BY <2>7, <2>8
<1>8. CASE View(t)
  <2>1. /\ pc[t] = "view" /\ pc'[t] = "read" /\ UNCHANGED <<tracking, cache>>
        /\ call' = [call EXCEPT ![t].count =
                      Len((IF Target(t) \in Captures THEN cache ELSE tracking)[s])]
    BY <1>1, <1>8 DEF View, Goto, CallsOK, caches
  <2>2. cache[s] = FacesOf(f) /\ TokensOf(tracking[s]) = FacesOf(f) /\ call[t].read = <<>> /\ ~call[t].stale
    BY <1>1, <1>3, <2>1 DEF FrameOK, InFrame
  <2>3. tracking[s] \in Seq(TrackedFaces)
    BY DEF CacheInv, CachesTyped
  <2>4. Len(tracking[s]) = Len(FacesOf(f)) /\ Len(cache[s]) = Len(FacesOf(f))
    BY <2>2, <2>3, TokensTyped
  <2>5. call' = [call EXCEPT ![t].count = Len(FacesOf(f))]
    BY <2>1, <2>4
  <2>6. /\ call'[t].count = Len(FacesOf(f)) /\ call'[t].read = <<>> /\ ~call'[t].stale
        /\ call'[t].operation = call[t].operation /\ call'[t].target = call[t].target
        /\ call'[t].frame = f
    BY <1>1, <1>2, <2>2, <2>5 DEF CallsOK, CallRecords
  <2>7. Begins(<<>>, f)
    <3>1. Len(<<>>) = 0 /\ Len(FacesOf(f)) \in Nat
      BY FacesTyped
    <3> QED
      BY <3>1 DEF Begins
  <2>8. Session(t)' = s
    BY <1>1, <2>6 DEF Session, Target
  <2> QED
    BY <1>2, <2>1, <2>2, <2>6, <2>7, <2>8 DEF FrameOK, InFrame, Operation, FacesOf, Begins
<1>9. CASE Read(t)
  <2>1. /\ pc[t] = "read" /\ pc' = pc /\ UNCHANGED cache /\ Len(call[t].read) < call[t].count
        /\ \E face \in Reads(t, Len(call[t].read) + 1) : call' = [call EXCEPT ![t].read = Append(@, face)]
    BY <1>9 DEF Read, caches
  <2>2. /\ cache[s] = FacesOf(f) /\ call[t].count = Len(FacesOf(f)) /\ ~call[t].stale
        /\ Begins(call[t].read, f)
    BY <1>1, <1>3, <2>1 DEF FrameOK, InFrame
  <2>3. call[t].read \in Seq(Tokens \cup {Garbage}) /\ Len(call[t].read) \in Nat /\ Len(FacesOf(f)) \in Nat
    BY <1>2, FacesTyped DEF CallRecords
  <2>4. PICK k \in Tokens : k = FacesOf(f)[Len(call[t].read) + 1]
    BY <2>1, <2>2, <2>3, FacesTyped
  <2>5. Len(call[t].read) + 1 \in DOMAIN cache[s]
    BY <2>1, <2>2, <2>3, FacesTyped
  <2>6. call' = [call EXCEPT ![t].read = Append(@, k)]
    BY <1>1, <2>1, <2>2, <2>4, <2>5 DEF Reads
  <2>7. /\ call'[t].read = Append(call[t].read, k) /\ call'[t].count = Len(FacesOf(f)) /\ ~call'[t].stale
        /\ call'[t].operation = call[t].operation /\ call'[t].target = call[t].target
        /\ call'[t].frame = f
    BY <1>1, <1>2, <2>2, <2>6 DEF CallsOK, CallRecords
  <2>8. Begins(call'[t].read, f)
    BY <2>1, <2>2, <2>3, <2>4, <2>7, BegunGoesOn
  <2>9. Session(t)' = s
    BY <1>1, <2>7 DEF Session, Target
  <2> QED
    BY <1>2, <2>1, <2>2, <2>7, <2>8, <2>9 DEF FrameOK, InFrame, Operation, FacesOf, Begins
<1> QED
  BY <1>4, <1>5, <1>6, <1>7, <1>8, <1>9

\* The step of a thread disturbs no other thread's frame.
LEMMA OthersFrame ==
    ASSUME OneOwner, SerialInv, FrameInv, CacheInv, TrackerInv, CallsOK, NEW t \in Threads,
           Begin(t) \/ Step(t), NEW u \in Threads, u # t
    PROVE  FrameOK(u)'
<1>0. FrameOK(u)
  BY DEF FrameInv
<1>1. CASE Begin(t)
  <2>1. UNCHANGED <<tracking, cache>> /\ pc'[u] = pc[u] /\ call'[u] = call[u]
    BY <1>1, BeginPlanned
  <2>2. UNCHANGED plan /\ Session(u)' = Session(u)
    BY <1>1, <2>1 DEF Begin, Session, Target
  <2> QED
    BY <1>0, <2>1, <2>2, FrameStill DEF TokensOf
<1>2. CASE Lock(t) \/ Extract(t) \/ ExtractAligned(t)
  <2>1. PICK places : Overtake(t, places) /\ places \in {{"view", "read"}, {"take"}}
                      /\ (places = {"view", "read"} => Lock(t))
    BY <1>2 DEF Lock, Extract, ExtractAligned
  <2>2. pc'[u] = pc[u]
    BY <1>2, OthersStay DEF Step
  <2>3. call'[u].read = call[u].read /\ call'[u].count = call[u].count
    <3>1. call[u] \in CallRecords
      BY DEF CallsOK
    <3>2. \E b : call'[u] = [call[u] EXCEPT !.stale = b]
      BY <2>1 DEF Overtake
    <3> QED
      BY <3>1, <3>2 DEF CallRecords
  <2>4. Lock(t) /\ InFrame(u) => Session(u) # Session(t)
    BY Exclusive DEF Lock, InFrame
  <2>5. InFrame(u) \/ pc[u] = "serialize" => call'[u].stale = call[u].stale
    BY <2>1, <2>4, OvertakeTyped DEF InFrame
  <2>6. UNCHANGED tracking
    BY <1>2 DEF Lock, Extract, ExtractAligned
  <2>7. InFrame(u) => cache'[Session(u)] = cache[Session(u)]
    <3>1. CASE Lock(t)
      BY <2>4, <3>1, SessionTyped DEF Lock, InFrame, CacheInv, CachesTyped
    <3>2. CASE Extract(t) \/ ExtractAligned(t)
      BY <3>2 DEF Extract, ExtractAligned
    <3> QED
      BY <1>2, <3>1, <3>2
  <2>8. TokensOf(tracking[Session(u)])' = TokensOf(tracking[Session(u)])
    <3>1. Session(u)' = Session(u)
      BY <2>1, OvertakeTyped DEF Session, Target
    <3> QED
      BY <2>6, <3>1 DEF TokensOf
  <2> QED
    BY <1>0, <2>1, <2>2, <2>3, <2>5, <2>7, <2>8, FrameStill, OvertakeTyped DEF InFrame
<1>3. CASE ~Lock(t) /\ ~Extract(t) /\ ~ExtractAligned(t) /\ ~Begin(t)
  <2>1. pc'[u] = pc[u] /\ call'[u] = call[u]
    BY <1>3 DEF Step, Serialize, Track, Fail, Fill, View, Read, Deliver, Process,
           ClearTrackingFace, TakeFeature, Leave, UpdateWithSnapshot, GetResults, Finish, Reset,
           Return, Goto, CallsOK
  <2>2. Session(u)' = Session(u)
    BY <2>1 DEF Session, Target
  <2>3. CASE UNCHANGED <<tracking, cache>>
    BY <1>0, <2>1, <2>2, <2>3, FrameStill DEF TokensOf
  <2>4. CASE Track(t) \/ Fail(t) \/ Fill(t) \/ ClearTrackingFace(t)
    <3>1. InFrame(u) => Session(u) # Session(t)
      BY <2>4, Exclusive DEF Track, Fail, Fill, ClearTrackingFace, Runs, InFrame
    <3>2. pc[t] # "idle" /\ Session(t) \in Sessions
      BY <2>4, SessionTyped DEF Track, Fail, Fill, ClearTrackingFace, Runs
    <3>3. \A x \in Sessions \ {Session(t)} : tracking'[x] = tracking[x] /\ cache'[x] = cache[x]
      <4>1. CASE Track(t) \/ Fail(t)
        BY <4>1 DEF Track, Fail, CacheInv, CachesTyped
      <4>2. CASE Fill(t)
        BY <4>2 DEF Fill, CacheInv, CachesTyped
      <4>3. CASE ClearTrackingFace(t)
        <5>1. Target(t) = Session(t)
          BY <4>3, SessionAssumption DEF ClearTrackingFace, Runs, Session, CallsOK, CaptureNames
        <5> QED
          BY <4>3, <5>1 DEF ClearTrackingFace, CacheInv, CachesTyped
      <4> QED
        BY <2>4, <4>1, <4>2, <4>3
    <3>4. InFrame(u) => /\ cache'[Session(u)] = cache[Session(u)]
                        /\ tracking'[Session(u)] = tracking[Session(u)]
      BY <3>1, <3>3, SessionTyped DEF InFrame
    <3>5. InFrame(u) => TokensOf(tracking[Session(u)])' = TokensOf(tracking[Session(u)])
      BY <2>2, <3>4 DEF TokensOf
    <3> QED
      BY <1>0, <2>1, <3>4, <3>5, FrameStill DEF InFrame
  <2>5. CASE Process(t)
    <3>1. UNCHANGED cache
      BY <2>5 DEF Process
    <3>2. \A x \in Sessions : TokensOf(tracking[x])' = TokensOf(tracking[x])
      BY <2>5, ProcessOwned, SameTokens DEF CacheInv
    <3>3. InFrame(u) => TokensOf(tracking[Session(u)])' = TokensOf(tracking[Session(u)])
      <4>1. SUFFICES ASSUME InFrame(u)
                     PROVE  TokensOf(tracking[Session(u)])' = TokensOf(tracking[Session(u)])
        OBVIOUS
      <4>2. PICK x \in Sessions : x = Session(u) /\ x = Session(u)'
        BY <2>2, <4>1, SessionTyped DEF InFrame
      <4>3. TokensOf(tracking[x])' = TokensOf(tracking[x])
        BY <3>2
      <4> QED
        BY <4>2, <4>3 DEF TokensOf
    <3> QED
      BY <1>0, <2>1, <3>1, <3>3, FrameStill DEF InFrame
  <2> QED
    BY <1>3, <2>3, <2>4, <2>5 DEF Step, Serialize, View, Read, Deliver, TakeFeature, Leave,
           UpdateWithSnapshot, GetResults, Finish, Reset, caches
<1> QED
  BY <1>1, <1>2, <1>3

\* Every step keeps the frames, and delivers them as they are.
LEMMA FrameStep ==
    ASSUME OneOwner, SerialInv, FrameInv, CacheInv, TrackerInv, CallsOK, NEW t \in Threads,
           Begin(t) \/ Step(t)
    PROVE  FrameInv'
<1>1. \A u \in Threads \ {t} : FrameOK(u)'
  BY OthersFrame
<1>2. CASE Begin(t)
  BY <1>1, <1>2, BeginPlanned DEF FrameInv, OwnFaces, FacesOf
<1>3. CASE Serialize(t) \/ Lock(t) \/ Track(t) \/ Fill(t) \/ View(t) \/ Read(t)
  <2>1. UNCHANGED last
    BY <1>3 DEF Serialize, Lock, Track, Fill, View, Read
  <2> QED
    BY <1>1, <1>3, <2>1, OwnFrameStep DEF FrameInv, OwnFaces, FacesOf
<1>4. CASE Extract(t) \/ ExtractAligned(t)
  <2>1. pc[t] = "run" /\ pc'[t] \in {"take", "leave"} /\ UNCHANGED last /\ Overtake(t, {"take"})
    BY <1>4 DEF Extract, ExtractAligned, Runs, Goto, CallsOK
  <2>2. FrameOK(t)'
    BY <2>1, OvertakeTyped DEF FrameInv, FrameOK, InFrame, Operation
  <2> QED
    BY <1>1, <2>1, <2>2 DEF FrameInv, OwnFaces, FacesOf
<1>5. CASE Fail(t) \/ Process(t) \/ ClearTrackingFace(t) \/ UpdateWithSnapshot(t) \/ GetResults(t)
             \/ Finish(t) \/ Reset(t) \/ Leave(t) \/ Deliver(t) \/ TakeFeature(t)
  <2>1. PICK result : Return(t, result)
    BY <1>5 DEF Fail, Process, ClearTrackingFace, UpdateWithSnapshot, GetResults, Finish, Reset, Leave,
                Deliver, TakeFeature
  <2>2. /\ pc'[t] = "idle" /\ last'[t] = result /\ \A u \in Threads \ {t} : last'[u] = last[u]
    BY <2>1 DEF Return, Goto, CallsOK
  <2>3. FrameOK(t)'
    BY <2>2 DEF FrameOK, InFrame
  <2>4. last'[t].frame # Nobody => last'[t].read = FacesOf(last'[t].frame)
    <3>1. CASE Deliver(t)
      <4>1. /\ last' = [last EXCEPT ![t] = call[t]] /\ pc[t] = "read"
            /\ Len(call[t].read) = call[t].count
        BY <3>1 DEF Deliver, Return
      <4>2. call[t].frame \in Frames /\ call[t].read \in Seq(Tokens \cup {Garbage})
        BY <4>1 DEF CallsOK, CallRecords, Extracting
      <4>3. call[t].count = Len(FacesOf(call[t].frame)) /\ Begins(call[t].read, call[t].frame)
        BY <4>1 DEF FrameInv, FrameOK
      <4>4. call[t].read = FacesOf(call[t].frame)
        BY <4>1, <4>2, <4>3, BegunIsDone
      <4> QED
        BY <4>1, <4>4 DEF CallsOK
    <3>2. CASE TakeFeature(t)
      <4>1. PICK found : last' = [last EXCEPT ![t] = [call[t] EXCEPT !.read = <<found>>]] /\ pc[t] = "take"
        BY <3>2 DEF TakeFeature, Return
      <4>2. call[t] \in CallRecords /\ Operation(t) \notin Tracks
        BY <4>1 DEF CallsOK, Extractions, Tracks
      <4>3. call[t].frame = Nobody
        BY <4>1, <4>2 DEF FrameInv, FrameOK
      <4>4. last'[t].frame = call[t].frame
        BY <4>1, <4>2 DEF CallsOK, CallRecords
      <4> QED
        BY <4>3, <4>4
    <3>3. CASE Fail(t) \/ Process(t) \/ ClearTrackingFace(t) \/ UpdateWithSnapshot(t) \/ GetResults(t)
                 \/ Finish(t) \/ Reset(t) \/ Leave(t)
      <4>1. last' = [last EXCEPT ![t] = last[t]]
        BY <3>3 DEF Fail, Process, ClearTrackingFace, UpdateWithSnapshot, GetResults, Finish, Reset,
                    Leave, Return
      <4> QED
        BY <4>1 DEF FrameInv, OwnFaces, CallsOK
    <3> QED
      BY <1>5, <3>1, <3>2, <3>3
  <2>5. OwnFaces'
    <3> SUFFICES ASSUME NEW u \in Threads, last'[u].frame # Nobody
                 PROVE  last'[u].read = FacesOf(last'[u].frame)
      BY DEF OwnFaces, FacesOf
    <3> QED
      BY <2>2, <2>4 DEF FrameInv, OwnFaces
  <2> QED
    BY <1>1, <2>3, <2>5 DEF FrameInv
<1> QED
  BY <1>2, <1>3, <1>4, <1>5 DEF Step

-----------------------------------------------------------------------------
(* Mutexes. *)

\* Thread t is at a mutex that thread u holds: FaceSession::m_mtx_, or the mutex
\* of a capture session.
AtSession(t) ==
    pc[t] = "lock" \/ (pc[t] = "run" /\ Operation(t) \in {"process", "extract", "align"})
AtCapture(t) ==
    pc[t] = "serialize"
    \/ (pc[t] = "run" /\ Operation(t) \in {"assess", "results", "finish", "reset"})
WaitsFor(t, u) ==
    \/ AtSession(t) /\ holder[Session(t)] = u
    \/ AtCapture(t) /\ serial[Target(t)] = u

\* No mutex keeps the thread from its next step.
GoesOn(t) ==
    /\ AtSession(t) => holder[Session(t)] = Nobody
    /\ AtCapture(t) => serial[Target(t)] = Nobody

\* A waiting thread waits for one that goes on, or for one that waits for one
\* that goes on: there is no circle of waiting threads, and no mutex without a
\* thread that is going to release it.
WaitsAreShort ==
    \A t \in Threads :
        \/ GoesOn(t)
        \/ \E u \in Threads : WaitsFor(t, u) /\ GoesOn(u)
        \/ \E u, w \in Threads : WaitsFor(t, u) /\ WaitsFor(u, w) /\ GoesOn(w)

\* A locked mutex is that of a thread's call, which has not returned, and only the
\* calls on a capture session that track a frame lock that session's mutex first.
LocksInv ==
    /\ holder \in [Sessions -> Threads \cup {Nobody}]
    /\ serial \in [Captures -> Threads \cup {Nobody}]
    /\ \A s \in Sessions : holder[s] # Nobody => Tracking(holder[s], s)
    /\ \A c \in Captures :
         serial[c] # Nobody => InFrame(serial[c]) /\ Target(serial[c]) = c
    /\ \A t \in Threads : pc[t] = "serialize" => Target(t) \in Captures

\* A step changes the target of no call of another thread, and its own only when
\* the call begins or returns.
LEMMA TargetsStay ==
    ASSUME CallsOK, NEW t \in Threads, Begin(t) \/ Step(t)
    PROVE  /\ \A u \in Threads \ {t} : pc'[u] = pc[u] /\ call'[u].target = call[u].target
           /\ pc[t] # "idle" /\ pc'[t] # "idle" => call'[t].target = call[t].target
<1>1. CASE Begin(t)
  <2>1. \E c : call' = [call EXCEPT ![t] = c]
    BY <1>1 DEF Begin
  <2>2. pc[t] = "idle" /\ \A u \in Threads \ {t} : pc'[u] = pc[u]
    BY <1>1 DEF Begin, Goto, CallsOK
  <2> QED
    BY <2>1, <2>2 DEF CallsOK
<1>2. CASE Lock(t) \/ Extract(t) \/ ExtractAligned(t)
  BY <1>2, OvertakeTyped DEF Lock, Extract, ExtractAligned, Goto, CallsOK
<1>3. CASE Serialize(t) \/ Track(t) \/ Fill(t)
  BY <1>3 DEF Serialize, Track, Fill, Goto, CallsOK
<1>4. CASE View(t) \/ Read(t)
  <2>1. \/ \E n : call' = [call EXCEPT ![t].count = n]
        \/ \E face : call' = [call EXCEPT ![t].read = Append(@, face)]
    BY <1>4 DEF View, Read
  <2>2. call[t] \in CallRecords /\ \A u \in Threads \ {t} : pc'[u] = pc[u]
    BY <1>4 DEF View, Read, Goto, CallsOK
  <2> QED
    BY <2>1, <2>2 DEF CallRecords, CallsOK
<1>5. CASE Fail(t) \/ Process(t) \/ ClearTrackingFace(t) \/ UpdateWithSnapshot(t) \/ GetResults(t)
             \/ Finish(t) \/ Reset(t) \/ Leave(t) \/ Deliver(t) \/ TakeFeature(t)
  <2>1. PICK result : Return(t, result)
    BY <1>5 DEF Fail, Process, ClearTrackingFace, UpdateWithSnapshot, GetResults, Finish, Reset, Leave,
                Deliver, TakeFeature
  <2> QED
    BY <2>1 DEF Return, Goto, CallsOK
<1> QED
  BY <1>1, <1>2, <1>3, <1>4, <1>5 DEF Step

\* HFUpdateFaceCaptureSession is the only call that comes to a capture session's
\* mutex before it tracks.
LEMMA UpdatesSerialize ==
    ASSUME CallsOK, NEW t \in Threads, Begin(t) \/ Step(t), pc'[t] = "serialize"
    PROVE  Target(t)' \in Captures
<1>1. CASE Begin(t)
  <2>1. PICK op \in plan[t].operations :
          /\ \E f \in IF op[1] \in Tracks THEN Frames ELSE {Nobody},
                face \in IF op[1] = "extract" THEN Kept ELSE {Nobody} :
               call' = [call EXCEPT ![t] = [NoCall EXCEPT !.operation = op[1], !.target = op[2],
                                                          !.frame = f, !.face = face]]
          /\ pc' = [pc EXCEPT ![t] = CASE op[1] = "update" -> "serialize" [] op[1] = "snapshot" -> "lock"
                                       [] OTHER -> "run"]
    BY <1>1 DEF Begin, Goto
  <2>2. op[1] = "update"
    BY <2>1 DEF CallsOK
  <2>3. op[2] \in Captures
    BY <2>2, SessionAssumption DEF CallsOK
  <2>4. call'[t].target = op[2]
    BY <2>1 DEF CallsOK, NoCall
  <2> QED
    BY <2>3, <2>4 DEF Target
<1>2. CASE Serialize(t) \/ Lock(t) \/ Track(t) \/ Fill(t) \/ View(t) \/ Read(t)
  BY <1>2 DEF Serialize, Lock, Track, Fill, View, Read, Goto, CallsOK
<1>3. CASE Extract(t) \/ ExtractAligned(t)
  BY <1>3 DEF Extract, ExtractAligned, Runs, Goto, CallsOK
<1>4. CASE Fail(t) \/ Process(t) \/ ClearTrackingFace(t) \/ UpdateWithSnapshot(t) \/ GetResults(t)
             \/ Finish(t) \/ Reset(t) \/ Leave(t) \/ Deliver(t) \/ TakeFeature(t)
  <2>1. PICK result : Return(t, result)
    BY <1>4 DEF Fail, Process, ClearTrackingFace, UpdateWithSnapshot, GetResults, Finish, Reset, Leave,
                Deliver, TakeFeature
  <2> QED
    BY <2>1 DEF Return, Goto, CallsOK
<1> QED
  BY <1>1, <1>2, <1>3, <1>4 DEF Step

\* It is enough that a step takes mutexes for its own thread only, and leaves it
\* those of the call it is in.
LEMMA LocksKept ==
    ASSUME LocksInv, CallsOK, NEW t \in Threads, Begin(t) \/ Step(t),
           holder' = [s \in Sessions |-> holder'[s]],
           serial' = [c \in Captures |-> serial'[c]],
           \A s \in Sessions : holder'[s] \in {holder[s], Nobody, t},
           \A c \in Captures : serial'[c] \in {serial[c], Nobody, t},
           \A s \in Sessions : holder'[s] = t => Tracking(t, s)',
           \A c \in Captures : serial'[c] = t => InFrame(t)' /\ Target(t)' = c
    PROVE  LocksInv'
<1>1. \A u \in Threads \ {t} : /\ pc'[u] = pc[u] /\ Target(u)' = Target(u)
                               /\ Session(u)' = Session(u)
  BY TargetsStay DEF Target, Session
<1>2. /\ holder' \in [Sessions -> Threads \cup {Nobody}]
      /\ serial' \in [Captures -> Threads \cup {Nobody}]
  BY DEF LocksInv
<1>3. ASSUME NEW s \in Sessions, holder'[s] # Nobody PROVE Tracking(holder[s], s)'
  <2>1. CASE holder'[s] = t
    BY <2>1 DEF Tracking, Session, Target
  <2>2. CASE holder'[s] # t
    <3>1. PICK u \in Threads \ {t} : u = holder[s] /\ u = holder'[s] /\ Tracking(u, s)
      BY <1>2, <1>3, <2>2 DEF LocksInv
    <3>2. pc'[u] \in {"track", "fill"} /\ Session(u)' = s
      BY <1>1, <3>1 DEF Tracking
    <3> QED
      BY <3>1, <3>2 DEF Tracking, Session, Target
  <2> QED
    BY <2>1, <2>2
<1>4. ASSUME NEW c \in Captures, serial'[c] # Nobody
      PROVE  InFrame(serial[c])' /\ Target(serial[c])' = c
  <2>1. CASE serial'[c] = t
    BY <2>1 DEF InFrame, Target
  <2>2. CASE serial'[c] # t
    <3>1. PICK u \in Threads \ {t} : u = serial[c] /\ u = serial'[c] /\ InFrame(u) /\ Target(u) = c
      BY <1>2, <1>4, <2>2 DEF LocksInv
    <3>2. pc'[u] = pc[u] /\ Target(u)' = c
      BY <1>1, <3>1
    <3> QED
      BY <3>1, <3>2 DEF InFrame, Target
  <2> QED
    BY <2>1, <2>2
<1>5. ASSUME NEW u \in Threads, pc'[u] = "serialize" PROVE Target(u)' \in Captures
  <2>1. CASE u = t
    BY <1>5, <2>1, UpdatesSerialize
  <2>2. CASE u # t
    <3>1. pc'[u] = pc[u] /\ Target(u)' = Target(u)
      BY <1>1, <2>2
    <3> QED
      BY <1>5, <3>1 DEF LocksInv
  <2> QED
    BY <2>1, <2>2
<1> QED
  BY <1>2, <1>3, <1>4, <1>5 DEF LocksInv

\* Every step leaves the locked mutexes to calls that have not returned.
LEMMA LocksStep ==
    ASSUME LocksInv, CallsOK, NEW t \in Threads, Begin(t) \/ Step(t)
    PROVE  LocksInv'
<1>0. /\ pc[t] # "idle" /\ pc'[t] # "idle" => Target(t)' = Target(t) /\ Session(t)' = Session(t)
      /\ t # Nobody
      /\ holder = [s \in Sessions |-> holder[s]] /\ serial = [c \in Captures |-> serial[c]]
      /\ \A s \in Sessions : holder[s] = t => Tracking(t, s)
      /\ \A c \in Captures : serial[c] = t => InFrame(t) /\ Target(t) = c
  BY TargetsStay, SessionAssumption DEF Target, Session, LocksInv
<1>1. CASE Begin(t)
  <2>1. UNCHANGED <<holder, serial>> /\ pc[t] = "idle"
    BY <1>1 DEF Begin
  <2> QED
    BY <1>0, <2>1, LocksKept DEF Tracking, InFrame
<1>2. CASE Lock(t)
  <2>1. /\ pc[t] = "lock" /\ pc'[t] = "track" /\ UNCHANGED serial
        /\ holder' = [holder EXCEPT ![Session(t)] = t]
    BY <1>2 DEF Lock, Goto, CallsOK
  <2>2. Session(t)' = Session(t) /\ Target(t)' = Target(t)
    BY <1>0, <2>1
  <2>3. \A s \in Sessions : holder[s] # t
    BY <1>0, <2>1 DEF Tracking
  <2>4. \A s \in Sessions : holder'[s] = t => s = Session(t)
    BY <2>1, <2>3, <1>0
  <2>5. /\ \A s \in Sessions : holder'[s] = t => Tracking(t, s)'
        /\ \A c \in Captures : serial'[c] = t => InFrame(t)' /\ Target(t)' = c
    BY <1>0, <2>1, <2>2, <2>4 DEF Tracking, InFrame
  <2>6. /\ holder' = [s \in Sessions |-> holder'[s]]
        /\ \A s \in Sessions : holder'[s] \in {holder[s], Nobody, t}
    BY <1>0, <2>1
  <2>7. serial' = [c \in Captures |-> serial'[c]] /\ \A c \in Captures : serial'[c] = serial[c]
    BY <1>0, <2>1
  <2> QED
    BY <2>5, <2>6, <2>7, LocksKept
<1>3. CASE Serialize(t)
  <2>1. /\ pc[t] = "serialize" /\ pc'[t] = "lock" /\ UNCHANGED holder
        /\ serial' = [serial EXCEPT ![Target(t)] = t]
    BY <1>3 DEF Serialize, Goto, CallsOK
  <2>2. (\A s \in Sessions : holder[s] # t) /\ \A c \in Captures : serial[c] # t
    BY <1>0, <2>1 DEF Tracking, InFrame
  <2>3. \A c \in Captures : serial'[c] = t => InFrame(t)' /\ Target(t)' = c
    BY <1>0, <2>1, <2>2 DEF InFrame
  <2>4. \A s \in Sessions : holder'[s] = t => Tracking(t, s)'
    BY <2>1, <2>2
  <2>5. holder' = [s \in Sessions |-> holder'[s]] /\ \A s \in Sessions : holder'[s] = holder[s]
    BY <1>0, <2>1
  <2>6. /\ serial' = [c \in Captures |-> serial'[c]]
        /\ \A c \in Captures : serial'[c] \in {serial[c], t}
    BY <1>0, <2>1
  <2> QED
    BY <2>3, <2>4, <2>5, <2>6, LocksKept
<1>4. CASE Track(t) \/ View(t) \/ Read(t) \/ Extract(t) \/ ExtractAligned(t)
  <2>1. /\ UNCHANGED <<holder, serial>>
        /\ \/ pc[t] = "track" /\ pc'[t] = "fill"
           \/ pc[t] \in {"view", "read"} /\ pc'[t] = "read"
           \/ pc[t] = "run" /\ pc'[t] \in {"take", "leave"}
    BY <1>4 DEF Track, View, Read, Extract, ExtractAligned, Runs, Goto, CallsOK
  <2> QED
    BY <1>0, <2>1, LocksKept DEF Tracking, InFrame
<1>5. CASE Fill(t)
  <2>1. pc[t] = "fill" /\ UNCHANGED serial
    BY <1>5 DEF Fill
  <2>2. \/ pc'[t] = "fill" /\ UNCHANGED holder
        \/ pc'[t] = "view" /\ holder' = [holder EXCEPT ![Session(t)] = Nobody]
    BY <1>5 DEF Fill, Goto, CallsOK
  <2>3. \A s \in Sessions : holder'[s] = t => Tracking(t, s)'
    BY <1>0, <2>1, <2>2 DEF Tracking
  <2>4. \A c \in Captures : serial'[c] = t => InFrame(t)' /\ Target(t)' = c
    BY <1>0, <2>1, <2>2 DEF InFrame
  <2>5. /\ holder' = [s \in Sessions |-> holder'[s]]
        /\ \A s \in Sessions : holder'[s] \in {holder[s], Nobody, t}
    BY <1>0, <2>2
  <2>6. serial' = [c \in Captures |-> serial'[c]] /\ \A c \in Captures : serial'[c] = serial[c]
    BY <1>0, <2>1
  <2> QED
    BY <2>3, <2>4, <2>5, <2>6, LocksKept
<1>6. CASE Fail(t) \/ Process(t) \/ ClearTrackingFace(t) \/ UpdateWithSnapshot(t) \/ GetResults(t)
             \/ Finish(t) \/ Reset(t) \/ Leave(t) \/ Deliver(t) \/ TakeFeature(t)
  <2>1. PICK result : Return(t, result)
    BY <1>6 DEF Fail, Process, ClearTrackingFace, UpdateWithSnapshot, GetResults, Finish, Reset, Leave,
                Deliver, TakeFeature
  <2>2. serial' = [c \in Captures |-> IF c = Target(t) THEN Nobody ELSE serial[c]]
    BY <2>1 DEF Return, Unserialize
  <2>3. /\ serial' = [c \in Captures |-> serial'[c]]
        /\ \A c \in Captures : serial'[c] \in {serial[c], Nobody} /\ serial'[c] # t
    BY <1>0, <2>2
  <2>4. /\ holder' = [s \in Sessions |-> holder'[s]]
        /\ \A s \in Sessions : holder'[s] \in {holder[s], Nobody} /\ holder'[s] # t
    <3>1. CASE Fail(t)
      BY <1>0, <3>1 DEF Fail, Tracking
    <3>2. CASE ~Fail(t)
      <4>1. UNCHANGED holder
        BY <1>6, <3>2 DEF Process, ClearTrackingFace, UpdateWithSnapshot, GetResults, Finish, Reset,
                          Leave, Deliver, TakeFeature
      <4>2. pc[t] \in {"run", "take", "leave", "read"}
        BY <1>6, <3>2 DEF Process, ClearTrackingFace, UpdateWithSnapshot, GetResults, Finish, Reset,
                          Leave, Deliver, TakeFeature, Runs
      <4> QED
        BY <1>0, <4>1, <4>2 DEF Tracking
    <3> QED
      BY <3>1, <3>2
  <2> QED
    BY <2>3, <2>4, LocksKept
<1> QED
  BY <1>1, <1>2, <1>3, <1>4, <1>5, <1>6 DEF Step

\* A thread that tracks is at no mutex, and one that has a capture session's mutex
\* is at most at that of the session.
LEMMA WaitsEnd == ASSUME LocksInv, CallsOK PROVE WaitsAreShort
<1>1. \A u \in Threads, s \in Sessions : Tracking(u, s) => GoesOn(u)
  BY DEF Tracking, GoesOn, AtSession, AtCapture
<1>2. ASSUME NEW u \in Threads, pc[u] # "idle", AtSession(u), holder[Session(u)] # Nobody
      PROVE  \E w \in Threads : WaitsFor(u, w) /\ GoesOn(w)
  <2>1. Session(u) \in Sessions
    BY <1>2, SessionTyped
  <2>2. holder[Session(u)] \in Threads /\ Tracking(holder[Session(u)], Session(u))
    BY <1>2, <2>1 DEF LocksInv
  <2> QED
    BY <1>1, <1>2, <2>1, <2>2 DEF WaitsFor
<1>3. \A u \in Threads : AtSession(u) \/ AtCapture(u) => pc[u] # "idle" 
  BY DEF AtSession, AtCapture
<1>4. ASSUME NEW u \in Threads, AtCapture(u), serial[Target(u)] # Nobody
      PROVE  \/ \E w \in Threads : WaitsFor(u, w) /\ GoesOn(w)
             \/ \E w, x \in Threads : WaitsFor(u, w) /\ WaitsFor(w, x) /\ GoesOn(x)
  <2>1. Target(u) \in Captures
    <3>1. CASE pc[u] = "serialize"
      BY <3>1 DEF LocksInv
    <3>2. CASE pc[u] # "serialize"
      BY <1>4, <3>2 DEF AtCapture, CallsOK, SessionNames
    <3> QED
      BY <3>1, <3>2
  <2>2. PICK w \in Threads : w = serial[Target(u)] /\ InFrame(w)
    BY <1>4, <2>1 DEF LocksInv
  <2>3. WaitsFor(u, w) /\ ~AtCapture(w) /\ pc[w] # "idle"
    BY <1>4, <2>2 DEF WaitsFor, AtCapture, InFrame
  <2>4. GoesOn(w) \/ (AtSession(w) /\ holder[Session(w)] # Nobody)
    BY <2>3 DEF GoesOn
  <2> QED
    BY <1>2, <2>3, <2>4
<1> QED
  BY <1>2, <1>3, <1>4 DEF WaitsAreShort, GoesOn

-----------------------------------------------------------------------------
(* The theorems. *)

\* The inductive invariant: calls, caches, windows and loans.
IInv == CallsOK /\ CacheInv /\ TrackerInv /\ LoanInv

\* It holds before the first call,
LEMMA InitStep == Init => IInv
<1> SUFFICES ASSUME Init PROVE IInv
  OBVIOUS
<1>1. /\ <<>> \in Seq(Tokens) /\ <<>> \in Seq(TrackedFaces)
      /\ <<>> \in Seq(Tokens \cup {Garbage})
  OBVIOUS
<1>2. DOMAIN <<>> = {}
  OBVIOUS
<1>3. PICK e : e = <<>> /\ e \in Seq(Tokens) /\ e \in Seq(TrackedFaces) /\ e \in Seq(Tokens \cup {Garbage})
               /\ DOMAIN e = {}
  BY <1>1, <1>2, Zenon
<1>4. NoCall \in CallRecords /\ NoLoan \in Loans /\ ~NoLoan.current
  BY <1>3 DEF NoCall, NoLoan, CallRecords, Loans
<1>5. CallsOK
  BY <1>3, <1>4 DEF Init, CallsOK, Labels
<1>6. CacheInv
  BY <1>3 DEF Init, CacheInv, CachesTyped, CachesFollowTracker, Tracking
<1>7. TrackerInv
  BY <1>3 DEF Init, TrackerInv, ActionsAreOwn
<1>8. LoanInv
  BY <1>3, <1>4 DEF Init, LoanInv, LoansTyped
<1> QED
  BY <1>5, <1>6, <1>7, <1>8 DEF IInv

\* and every step keeps it.
LEMMA NextStep == IInv /\ [Next]_vars => IInv'
<1> SUFFICES ASSUME IInv, [Next]_vars PROVE IInv'
  OBVIOUS
<1>1. CASE UNCHANGED vars
  <2>1. CallsOK'
    BY <1>1 DEF vars, IInv, CallsOK, Operation, Target
  <2>2. CacheInv'
    <3>1. UNCHANGED <<holder, tracking, cache, pc, call>>
      BY <1>1 DEF vars, caches
    <3>2. CachesTyped' /\ CachesFollowTracker'
      BY <3>1 DEF IInv, CacheInv, CachesTyped, CachesFollowTracker, TokensOf
    <3>3. \A t \in Threads, s \in Sessions : Tracking(t, s)' <=> Tracking(t, s)
      BY <3>1 DEF Tracking, Session, Target
    <3>4. \A s \in Sessions : Follows(s)' <=> Follows(s)
      BY <3>1 DEF Follows, TokensOf
    <3> QED
      BY <3>1, <3>2, <3>3, <3>4 DEF IInv, CacheInv
  <2>3. TrackerInv' /\ LoanInv'
    BY <1>1 DEF vars, caches, captured, IInv, TrackerInv, ActionsAreOwn, LoanInv, LoansTyped
  <2> QED
    BY <2>1, <2>2, <2>3 DEF IInv
<1>2. ASSUME NEW t \in Threads, Begin(t) \/ Step(t) PROVE IInv'
  <2>1. CallsOK'
    BY <1>2, BeginTyped, CallStep DEF IInv, CacheInv
  <2> QED
    BY <1>2, <2>1, CacheStep, TrackerStep, LoanStep DEF IInv
<1> QED
  BY <1>1, <1>2 DEF Next

\* The inductive invariant holds in every reachable state.
THEOREM Invariance == Spec => []IInv
BY InitStep, NextStep, PTL DEF Spec

\* The results lent by HFGetFaceCaptureResults stay where they are and are the
\* selector's until the next update, finish or reset of the capture session,
\* whichever threads ask for them meanwhile.
THEOREM LoansStay == Spec => []LoansHold
<1>1. IInv => LoansHold
  BY DEF IInv, LoanInv, LoansHold
<1> QED
  BY <1>1, Invariance, PTL

\* While no thread is tracking, the caches of a session show the faces of its
\* tracker, however threads share it.
THEOREM CachesFollow == Spec => []CachesFollowTracker
<1>1. IInv => CachesFollowTracker
  BY DEF IInv, CacheInv
<1> QED
  BY <1>1, Invariance, PTL

\* Actions are reported from a full window of records of one face, none of which
\* has counted for a blink before.
THEOREM ActionsOwned == Spec => []ActionsAreOwn
<1>1. IInv => ActionsAreOwn
  BY DEF IInv, TrackerInv
<1> QED
  BY <1>1, Invariance, PTL

\* If one thread at a time extracts features on a session, each feature a client
\* is given is that of the face it asked for, while other threads track and
\* capture on the same session.
THEOREM FeaturesOwned == ASSUME OneExtractor PROVE Spec => []OwnFeatures
<1>1. Init => FeatureInv
  BY DEF Init, FeatureInv, Finds, OwnFeatures, NoCall
<1>2. IInv /\ FeatureInv /\ [Next]_vars => FeatureInv'
  <2> SUFFICES ASSUME IInv, FeatureInv, [Next]_vars PROVE FeatureInv'
    OBVIOUS
  <2>1. CASE UNCHANGED vars
    BY <2>1 DEF vars, caches, FeatureInv, Finds, OwnFeatures, Operation, Target
  <2>2. CASE Next
    BY <2>2, FeatureStep DEF Next, IInv
  <2> QED
    BY <2>1, <2>2
<1>3. FeatureInv => OwnFeatures
  BY DEF FeatureInv
<1> QED
  BY <1>1, <1>2, <1>3, Invariance, PTL DEF Spec

\* Under this discipline the frames are on their way to whoever asked for them.
LEMMA FramesInvariance == ASSUME OneOwner PROVE Spec => [](SerialInv /\ FrameInv)
<1>1. Init => SerialInv /\ FrameInv
  BY DEF Init, SerialInv, InFrame, FrameInv, FrameOK, OwnFaces, NoCall
<1>2. IInv /\ SerialInv /\ FrameInv /\ [Next]_vars => (SerialInv /\ FrameInv)'
  <2> SUFFICES ASSUME IInv, SerialInv, FrameInv, [Next]_vars PROVE SerialInv' /\ FrameInv'
    OBVIOUS
  <2>1. CASE UNCHANGED vars
    <3>1. UNCHANGED <<plan, serial, pc, call, last, tracking, cache>>
      BY <2>1 DEF vars, caches
    <3>2. SerialInv'
      BY <3>1 DEF SerialInv, Planned, InFrame, Operation, Target
    <3>3. \A t \in Threads : FrameOK(t)'
      BY <3>1, FrameStill DEF FrameInv, IInv, TokensOf, Session, Target
    <3> QED
      BY <3>1, <3>2, <3>3 DEF FrameInv, OwnFaces, FacesOf
  <2>2. CASE Next
    BY <2>2, SerialStep, FrameStep DEF Next, IInv
  <2> QED
    BY <2>1, <2>2
<1> QED
  BY <1>1, <1>2, Invariance, PTL DEF Spec

\* If each session is tracked and cleared by one thread, or through one capture
\* session, then what HFExecuteFaceTrackSnapshot and HFUpdateFaceCaptureSession
\* deliver for a frame are the faces of that frame, however many threads call.
THEOREM FacesOwned == ASSUME OneOwner PROVE Spec => []OwnFaces
<1>1. FrameInv => OwnFaces
  BY DEF FrameInv
<1> QED
  BY <1>1, FramesInvariance, PTL

\* However many threads share however many sessions and capture sessions, no
\* circle of calls waits for each other's mutexes, and no mutex stays locked when
\* the call that took it has returned, also by an error: the capture session's is
\* always taken before its session's.
THEOREM NoCircularWait == Spec => []WaitsAreShort
<1>1. Init => LocksInv
  BY DEF Init, LocksInv
<1>2. IInv /\ LocksInv /\ [Next]_vars => LocksInv'
  <2> SUFFICES ASSUME IInv, LocksInv, [Next]_vars PROVE LocksInv'
    OBVIOUS
  <2>1. CASE UNCHANGED vars
    BY <2>1 DEF vars, LocksInv, Tracking, InFrame, Session, Target
  <2>2. CASE Next
    BY <2>2, LocksStep DEF Next, IInv
  <2> QED
    BY <2>1, <2>2
<1>3. IInv /\ LocksInv => WaitsAreShort
  BY WaitsEnd DEF IInv
<1> QED
  BY <1>1, <1>2, <1>3, Invariance, PTL DEF Spec

\* What a capture session delivers is a frame.
LEMMA CapturesStep ==
    ASSUME FrameInv, CallsOK, CapturesRunConcurrently, NEW t \in Threads, Begin(t) \/ Step(t)
    PROVE  CapturesRunConcurrently'
<1>1. \A u \in Threads \ {t} : last'[u] = last[u]
  BY DEF Begin, Step, Serialize, Lock, Track, Fail, Fill, View, Read, Deliver, Process,
         ClearTrackingFace, Extract, ExtractAligned, TakeFeature, Leave, UpdateWithSnapshot,
         GetResults, Finish, Reset, Return, CallsOK
<1>2. last'[t].target \in Captures => last'[t].read = FacesOf(last'[t].frame)
  <2>1. CASE Deliver(t)
    <3>1. last'[t] = call[t] /\ pc[t] = "read" /\ Len(call[t].read) = call[t].count
      BY <2>1 DEF Deliver, Return, CallsOK
    <3>2. call[t].frame \in Frames /\ call[t].read \in Seq(Tokens \cup {Garbage})
      BY <3>1 DEF CallsOK, CallRecords, Extracting
    <3>3. call[t].count = Len(FacesOf(call[t].frame)) /\ Begins(call[t].read, call[t].frame)
      BY <3>1 DEF FrameInv, FrameOK
    <3> QED
      BY <3>1, <3>2, <3>3, BegunIsDone
  <2>2. CASE TakeFeature(t)
    <3>1. PICK found : last' = [last EXCEPT ![t] = [call[t] EXCEPT !.read = <<found>>]] /\ pc[t] = "take"
      BY <2>2 DEF TakeFeature, Return
    <3>2. call[t] \in CallRecords /\ Target(t) \notin Captures
      BY <3>1, SessionAssumption DEF CallsOK, Extractions, CaptureNames
    <3>3. last'[t].target = Target(t)
      BY <3>1, <3>2 DEF CallsOK, CallRecords, Target
    <3> QED
      BY <3>2, <3>3
  <2>3. CASE ~Deliver(t) /\ ~TakeFeature(t)
    <3>1. last'[t] = last[t]
      BY <2>3 DEF Begin, Step, Serialize, Lock, Track, Fail, Fill, View, Read, Process,
             ClearTrackingFace, Extract, ExtractAligned, Leave, UpdateWithSnapshot,
             GetResults, Finish, Reset, Return, CallsOK
    <3> QED
      BY <3>1 DEF CapturesRunConcurrently
  <2> QED
    BY <2>1, <2>2, <2>3
<1> QED
  BY <1>1, <1>2 DEF CapturesRunConcurrently, FacesOf

\* Under the same discipline, what inspireface.h says of capture sessions is true
\* of those that pin sessions of their own: different ones may run concurrently,
\* and each selector is updated with the faces of the frame its call was given.
THEOREM CapturesConcurrent == ASSUME OneOwner PROVE Spec => []CapturesRunConcurrently
<1>1. Init => CapturesRunConcurrently
  BY SessionAssumption DEF Init, CapturesRunConcurrently, NoCall
<1>2. IInv /\ SerialInv /\ FrameInv /\ CapturesRunConcurrently /\ [Next]_vars => CapturesRunConcurrently'
  <2> SUFFICES ASSUME IInv, FrameInv, CapturesRunConcurrently, [Next]_vars
               PROVE  CapturesRunConcurrently'
    OBVIOUS
  <2>1. CASE UNCHANGED vars
    BY <2>1 DEF vars, CapturesRunConcurrently, FacesOf
  <2>2. CASE Next
    BY <2>2, CapturesStep DEF Next, IInv
  <2> QED
    BY <2>1, <2>2
<1> QED
  BY <1>1, <1>2, Invariance, FramesInvariance, PTL DEF Spec
=============================================================================
