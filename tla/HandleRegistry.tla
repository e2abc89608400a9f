--------------------------- MODULE HandleRegistry ---------------------------
(***************************************************************************)
(* The handle layer of the C API: the process-wide ResourceManager         *)
(* (runtime_module/resource_manage.h) and the calls of c_api/inspireface.cc *)
(* that create, use and release the opaque handles it tracks.              *)
(*                                                                         *)
(* A handle is the address of a heap object.  The registry maps, for each  *)
(* kind of object, the address to a shared_ptr that owns the object; a     *)
(* call copies that shared_ptr (a lease) and then dereferences the RAW     *)
(* handle the caller passed.  Releasing a handle removes the registry      *)
(* entry; the object dies when the last lease, and the last capture        *)
(* session that pins it, are gone.  Addresses of dead objects are reused   *)
(* by the allocator, so a stale handle may name another object.            *)
(*                                                                         *)
(* Each C API function is a short program over the registry, written below *)
(* as a sequence of instructions; threads execute them one instruction at  *)
(* a time (an instruction is one critical section of the registry mutex,   *)
(* or a stretch of code outside it).                                       *)
(***************************************************************************)
EXTENDS Integers, Sequences, FiniteSets

CONSTANTS
    Threads,      \* client threads calling the C API
    Objects,      \* identities of the objects allocated in a run (a bound)
    Addresses,    \* heap addresses the allocator hands out and reuses
    NoObject,     \* the empty shared_ptr; as an argument, the null handle
    Null,         \* address of the null handle
    EnabledCalls, \* the C API functions the clients call
    MixKinds      \* whether clients also pass handles of the wrong kind

Kinds == {"session", "stream", "bitmap", "snapshot", "capture"}
Scopes == {"outer", "inner"}

-----------------------------------------------------------------------------
(* Instructions. *)

Instruction(o, k, s, u) == [op |-> o, kind |-> k, scope |-> s, uses |-> u]

\* AcquireX(handle): validate the handle and lease its object, or fail.
Acquire(k) == Instruction("acquire", k, "outer", {})
\* The same, by a C API function called from another one: a lease of its own.
Reacquire(k) == Instruction("acquire", k, "inner", {})
\* The body runs on the raw handles of these kinds, and may return an error.
\* "pinned" is the algorithm session behind capture->session.
Work(uses) == Instruction("work", "session", "outer", uses)
\* std::make_shared of an object of kind k.
Make(k) == Instruction("make", k, "outer", {})
\* createX(handle, owner) and the store to the caller's out parameter.
Publish(k) == Instruction("publish", k, "outer", {})
\* A nested C API call returns: its leases end.
LeaveNested == Instruction("leave", "session", "inner", {})
\* releaseX(handle).
Unregister(k) == Instruction("unregister", k, "outer", {})

-----------------------------------------------------------------------------
(* The C API functions. *)

HFCreateInspireFaceSession == <<Make("session"), Work({}), Publish("session")>>
HFCreateImageStream == <<Make("stream"), Work({}), Publish("stream")>>
HFCreateImageBitmap == <<Make("bitmap"), Work({}), Publish("bitmap")>>
HFImageBitmapCopy ==
    <<Acquire("bitmap"), Make("bitmap"), Work({"bitmap"}), Publish("bitmap")>>

HFCreateImageStreamFromImageBitmap ==
    <<Acquire("bitmap"), Work({}), Make("stream"), Work({"bitmap"}), Publish("stream")>>
HFCreateImageBitmapFromImageStreamProcess ==
    <<Acquire("stream"), Work({"stream"}), Make("bitmap"), Work({"stream"}),
      Publish("bitmap")>>
HFFaceGetFaceAlignmentImage ==
    <<Acquire("session"), Acquire("stream"), Work({}), Make("bitmap"),
      Work({"session", "stream"}), Publish("bitmap")>>

\* Every function of a session alone: HFSessionClearTrackingFace, the setters.
HFSessionClearTrackingFace == <<Acquire("session"), Work({"session"})>>
HFExecuteFaceTrack ==
    <<Acquire("session"), Acquire("stream"), Work({"session", "stream"})>>
HFExecuteFaceTrackSnapshot ==
    <<Acquire("session"), Acquire("stream"),
      \* HFExecuteFaceTrack(session, streamHandle, &borrowed)
      Reacquire("session"), Reacquire("stream"), Work({"session", "stream"}), LeaveNested,
      Make("snapshot"), Work({"session"}), Publish("snapshot")>>
HFGetFaceResultSnapshotData == <<Acquire("snapshot"), Work({"snapshot"})>>

HFCreateFaceCaptureSession ==
    <<Acquire("session"), Make("capture"), Work({"session"}), Publish("capture")>>
HFUpdateFaceCaptureSession ==
    <<Acquire("capture"), Acquire("stream"), Work({"capture", "stream", "pinned"})>>
HFUpdateFaceCaptureSessionWithSnapshot ==
    <<Acquire("capture"), Acquire("stream"), Acquire("snapshot"),
      Work({"capture", "stream", "snapshot"})>>
\* HFGetFaceCaptureResults, HFFinishFaceCaptureSession, HFResetFaceCaptureSession.
HFGetFaceCaptureResults == <<Acquire("capture"), Work({"capture"})>>

HFReleaseInspireFaceSession == <<Unregister("session")>>
HFReleaseImageStream == <<Unregister("stream")>>
HFReleaseImageBitmap == <<Unregister("bitmap")>>
HFReleaseFaceResultSnapshot == <<Unregister("snapshot")>>
HFReleaseFaceCaptureSession == <<Unregister("capture")>>

Program == [
    CreateSession        |-> HFCreateInspireFaceSession,
    CreateStream         |-> HFCreateImageStream,
    CreateBitmap         |-> HFCreateImageBitmap,
    CopyBitmap           |-> HFImageBitmapCopy,
    StreamFromBitmap     |-> HFCreateImageStreamFromImageBitmap,
    BitmapFromStream     |-> HFCreateImageBitmapFromImageStreamProcess,
    AlignmentImage       |-> HFFaceGetFaceAlignmentImage,
    SessionCall          |-> HFSessionClearTrackingFace,
    ExecuteTrack         |-> HFExecuteFaceTrack,
    ExecuteTrackSnapshot |-> HFExecuteFaceTrackSnapshot,
    SnapshotData         |-> HFGetFaceResultSnapshotData,
    CreateCapture        |-> HFCreateFaceCaptureSession,
    UpdateCapture        |-> HFUpdateFaceCaptureSession,
    UpdateWithSnapshot   |-> HFUpdateFaceCaptureSessionWithSnapshot,
    CaptureCall          |-> HFGetFaceCaptureResults,
    ReleaseSession       |-> HFReleaseInspireFaceSession,
    ReleaseStream        |-> HFReleaseImageStream,
    ReleaseBitmap        |-> HFReleaseImageBitmap,
    ReleaseSnapshot      |-> HFReleaseFaceResultSnapshot,
    ReleaseCapture       |-> HFReleaseFaceCaptureSession]

Calls == DOMAIN Program

ASSUME HandleAssumption ==
    /\ NoObject \notin Objects
    /\ Null \notin Addresses
    /\ EnabledCalls \subseteq Calls
    /\ MixKinds \in BOOLEAN

-----------------------------------------------------------------------------
VARIABLES
    \* the heap
    phase,     \* phase[o]: "fresh" (not allocated yet), "alive" or "dead"
    kind,      \* kind[o]: what o is, once allocated
    addr,      \* addr[o]: where o lives or lived
    pin,       \* pin[c]: object owned by capture c's session_lease
    target,    \* target[c]: raw pointer capture->session
    \* the ResourceManager
    registry,  \* registry[k][a]: owner stored under address a, or NoObject
    created,   \* total_created of each registry
    released,  \* total_released of each registry
    \* the threads
    call,      \* call[t]: function being executed, or "none"
    pc,        \* pc[t]: instruction of Program[call[t]] to execute next
    arg,       \* arg[t][k]: object whose handle was passed for kind k
    lease,     \* lease[t][s]: objects owned by the leases of scope s
    own,       \* own[t]: object owned by a local shared_ptr
    \* history
    published, \* objects whose handle some client has received
    retired    \* objects whose handle has been released

heap == <<phase, kind, addr, pin, target>>
manager == <<registry, created, released>>
history == <<published, retired>>
vars == <<phase, kind, addr, pin, target, registry, created, released,
          call, pc, arg, lease, own, published, retired>>

NoArgs == [k \in Kinds |-> NoObject]
NoLeases == [s \in Scopes |-> {}]

Here(t) == Program[call[t]][pc[t]]
Running(t) == call[t] # "none" /\ pc[t] \in DOMAIN Program[call[t]]
At(t, op) == Running(t) /\ Here(t).op = op

\* The handle value the caller passed for kind k.
Handle(t, k) == IF arg[t][k] = NoObject THEN Null ELSE addr[arg[t][k]]
\* Mutant: one table of live addresses for all kinds of object.
RegisteredAnyKind(k, h) == h # Null /\ \E j \in Kinds : registry[j][h] # NoObject

Registered(k, h) == h # Null /\ registry[k][h] # NoObject

\* Objects with an owner: registry entries, leases, locals, and the session
\* leases of owned captures.  A shared_ptr's object dies with its last owner.
\* Mutant: a lease is a validated raw pointer, as before leases existed.
OwnedWithoutLeases ==
    {registry[k][a] : k \in Kinds, a \in Addresses} \cup {own[t] : t \in Threads}

\* Mutant: the registry holds raw pointers.
OwnedWithoutRegistry ==
    {own[t] : t \in Threads} \cup UNION {lease[t][s] : t \in Threads, s \in Scopes}

DirectlyOwned ==
    {registry[k][a] : k \in Kinds, a \in Addresses}
      \cup {own[t] : t \in Threads}
      \cup UNION {lease[t][s] : t \in Threads, s \in Scopes}
Owned == DirectlyOwned \cup {pin[c] : c \in DirectlyOwned \cap Objects}

Reap ==
    phase' = LET owned == Owned'
             IN [o \in Objects |->
                    IF phase[o] = "alive" /\ o \notin owned THEN "dead" ELSE phase[o]]

Goto(t, i) == pc' = [pc EXCEPT ![t] = i]
Advance(t) == Goto(t, pc[t] + 1)
GiveUp(t) == Goto(t, Len(Program[call[t]]) + 1)

-----------------------------------------------------------------------------
Init ==
    /\ phase = [o \in Objects |-> "fresh"]
    /\ kind = [o \in Objects |-> "none"]
    /\ addr = [o \in Objects |-> Null]
    /\ pin = [o \in Objects |-> NoObject]
    /\ target = [o \in Objects |-> Null]
    /\ registry = [k \in Kinds |-> [a \in Addresses |-> NoObject]]
    /\ created = [k \in Kinds |-> 0]
    /\ released = [k \in Kinds |-> 0]
    /\ call = [t \in Threads |-> "none"]
    /\ pc = [t \in Threads |-> 1]
    /\ arg = [t \in Threads |-> NoArgs]
    /\ lease = [t \in Threads |-> NoLeases]
    /\ own = [t \in Threads |-> NoObject]
    /\ published = {}
    /\ retired = {}

ArgKinds(c) ==
    {Program[c][i].kind : i \in {j \in DOMAIN Program[c] :
                                    Program[c][j].op \in {"acquire", "unregister"}}}

\* What a client may pass for kind k: any handle it has been given at some time,
\* now live or stale, perhaps of another kind, or the null handle.
Passable(k) == {o \in published : MixKinds \/ kind[o] = k} \cup {NoObject}

Invoke(t) ==
    /\ call[t] = "none"
    /\ \E c \in EnabledCalls :
         /\ call' = [call EXCEPT ![t] = c]
         /\ \E passed \in [ArgKinds(c) -> published \cup {NoObject}] :
              /\ \A k \in ArgKinds(c) : passed[k] \in Passable(k)
              /\ arg' = [arg EXCEPT ![t] =
                           [k \in Kinds |-> IF k \in ArgKinds(c) THEN passed[k] ELSE NoObject]]
    /\ pc' = [pc EXCEPT ![t] = 1]
    /\ UNCHANGED <<heap, manager, lease, own, history>>

\* ResourceManager::acquireX: a lease on the registered owner, or a failure.
AcquireLease(t) ==
    /\ At(t, "acquire")
    /\ LET k == Here(t).kind
           s == Here(t).scope
           h == Handle(t, k)
       IN IF Registered(k, h)
          THEN /\ lease' = [lease EXCEPT ![t][s] = @ \cup {registry[k][h]}]
               /\ Advance(t)
          ELSE GiveUp(t) /\ UNCHANGED lease
    /\ UNCHANGED <<heap, manager, call, arg, own, history>>

\* The body succeeds, or takes one of its error returns.
DoWork(t) ==
    /\ At(t, "work")
    /\ Advance(t) \/ GiveUp(t)
    /\ UNCHANGED <<heap, manager, call, arg, lease, own, history>>

\* What a new object's lease member owns: a capture copies its session's lease.
\* Mutant: the capture object stores capture->session only.
PinOfNothing(t, k) == {NoObject}

PinOf(t, k) ==
    IF k = "capture" THEN {s \in lease[t]["outer"] : kind[s] = "session"} ELSE {NoObject}

FreeAddresses == {a \in Addresses : \A o \in Objects : phase[o] = "alive" => addr[o] # a}

\* make_shared: a fresh object at an address no living object occupies.  The
\* identity chosen is immaterial; one choice keeps the state space small.
Construct(t) ==
    /\ At(t, "make")
    /\ \E p \in Objects : phase[p] = "fresh"
    /\ LET k == Here(t).kind
           o == CHOOSE p \in Objects : phase[p] = "fresh"
       IN \E a \in FreeAddresses, s \in PinOf(t, k) :
            /\ phase' = [phase EXCEPT ![o] = "alive"]
            /\ kind' = [kind EXCEPT ![o] = k]
            /\ addr' = [addr EXCEPT ![o] = a]
            /\ pin' = [pin EXCEPT ![o] = s]
            /\ target' = [target EXCEPT ![o] =
                            IF k = "capture" THEN Handle(t, "session") ELSE Null]
            /\ own' = [own EXCEPT ![t] = o]
    /\ Advance(t)
    /\ UNCHANGED <<manager, call, arg, lease, history>>

\* make_shared throws: the function returns HERR_UNKNOWN.
ConstructFails(t) ==
    /\ At(t, "make")
    /\ GiveUp(t)
    /\ UNCHANGED <<heap, manager, call, arg, lease, own, history>>

\* ResourceManager::createX; on success the caller receives the handle.  When
\* the address is still in the registry the call returns HERR_UNKNOWN.
Register(t) ==
    /\ At(t, "publish")
    /\ LET k == Here(t).kind
           o == own[t]
       IN IF Registered(k, addr[o])
          THEN GiveUp(t) /\ UNCHANGED <<registry, created, published>>
          ELSE /\ registry' = [registry EXCEPT ![k][addr[o]] = o]
               /\ created' = [created EXCEPT ![k] = @ + 1]
               /\ published' = published \cup {o}
               /\ Advance(t)
    /\ UNCHANGED <<heap, released, call, arg, lease, own, retired>>

\* The nested call returns and its leases end.
ReturnNested(t) ==
    /\ At(t, "leave")
    /\ lease' = [lease EXCEPT ![t]["inner"] = {}]
    /\ Advance(t)
    /\ UNCHANGED <<kind, addr, pin, target, manager, call, arg, own, history>>
    /\ Reap

\* Mutants: the entry is copied out and left in the map; a release is not
\* counted; the local owner is a raw pointer nobody deletes.
KeepEntry(k, h) == UNCHANGED registry
CountNothing(k) == UNCHANGED released
LeakLocals(t) == UNCHANGED own

EraseEntry(k, h) == registry' = [registry EXCEPT ![k][h] = NoObject]
CountRelease(k) == released' = [released EXCEPT ![k] = @ + 1]
DropLocals(t) == own' = [own EXCEPT ![t] = NoObject]

\* ResourceManager::releaseX: under the lock the entry goes and its owner moves
\* to a local; the local is destroyed after the lock (in Return).
Release(t) ==
    /\ At(t, "unregister")
    /\ LET k == Here(t).kind
           h == Handle(t, k)
       IN IF Registered(k, h)
          THEN /\ own' = [own EXCEPT ![t] = registry[k][h]]
               /\ EraseEntry(k, h)
               /\ CountRelease(k)
               /\ retired' = retired \cup {registry[k][h]}
               /\ Advance(t)
          ELSE GiveUp(t) /\ UNCHANGED <<own, registry, released, retired>>
    /\ UNCHANGED <<kind, addr, pin, target, created, call, arg, lease, published>>
    /\ Reap

\* The function returns: its leases and locals are destroyed.
Return(t) ==
    /\ call[t] # "none" /\ pc[t] = Len(Program[call[t]]) + 1
    /\ call' = [call EXCEPT ![t] = "none"]
    /\ pc' = [pc EXCEPT ![t] = 1]
    /\ arg' = [arg EXCEPT ![t] = NoArgs]
    /\ lease' = [lease EXCEPT ![t] = NoLeases]
    /\ DropLocals(t)
    /\ UNCHANGED <<kind, addr, pin, target, manager, history>>
    /\ Reap

Step(t) ==
    \/ AcquireLease(t)
    \/ DoWork(t)
    \/ Construct(t)
    \/ ConstructFails(t)
    \/ Register(t)
    \/ ReturnNested(t)
    \/ Release(t)
    \/ Return(t)

Next == \E t \in Threads : Invoke(t) \/ Step(t)

Spec == Init /\ [][Next]_vars

\* The operating system keeps running every thread that is inside a call.
FairSpec == Spec /\ \A t \in Threads : WF_vars(Step(t))

-----------------------------------------------------------------------------
(* Properties. *)

Alive(o) == phase[o] = "alive"
RegisteredObjects == {registry[k][a] : k \in Kinds, a \in Addresses} \ {NoObject}
Leased(t) == lease[t]["outer"] \cup lease[t]["inner"]

\* Every variable has its type.
TypeOK ==
    /\ phase \in [Objects -> {"fresh", "alive", "dead"}]
    /\ kind \in [Objects -> Kinds \cup {"none"}]
    /\ addr \in [Objects -> Addresses \cup {Null}]
    /\ pin \in [Objects -> Objects \cup {NoObject}]
    /\ target \in [Objects -> Addresses \cup {Null}]
    /\ registry \in [Kinds -> [Addresses -> Objects \cup {NoObject}]]
    /\ created \in [Kinds -> Nat] /\ released \in [Kinds -> Nat]
    /\ call \in [Threads -> Calls \cup {"none"}]
    /\ pc \in [Threads -> Nat \ {0}]
    /\ \A t \in Threads : call[t] # "none" => pc[t] <= Len(Program[call[t]]) + 1
    /\ arg \in [Threads -> [Kinds -> Objects \cup {NoObject}]]
    /\ lease \in [Threads -> [Scopes -> SUBSET Objects]]
    /\ own \in [Threads -> Objects \cup {NoObject}]
    /\ published \subseteq Objects /\ retired \subseteq Objects

\* Memory at address h is a living object of kind k.
Points(k, h) == \E o \in Objects : Alive(o) /\ kind[o] = k /\ addr[o] = h

\* The raw handle for use u of a call by t points at a living object.  For
\* "pinned", so does the session pointer inside the capture object.
Dereferenceable(t, u) ==
    IF u = "pinned"
    THEN \A c \in Objects : (Alive(c) /\ kind[c] = "capture" /\ addr[c] = Handle(t, "capture"))
                               => Points("session", target[c])
    ELSE Points(u, Handle(t, u))

\* A C API call never dereferences freed memory or memory of another kind, no
\* matter which handles are passed (stale, null, of another kind, reused) and
\* when other threads release them: the leases taken at the head of each
\* function outlive the casts (HF_FaceAlgorithmSession *)session and the like,
\* and a capture's session_lease outlives every use of capture->session.
NoDanglingUse ==
    \A t \in Threads : At(t, "work") => \A u \in Here(t).uses : Dereferenceable(t, u)

\* HFExecuteFaceTrackSnapshot validates the same two handles twice.  When both
\* validations succeed they lease the same objects, though the handle may have
\* been released and other objects created in between: the outer lease keeps
\* the address from being reused.
NestedLeaseAgrees ==
    \A t \in Threads :
        \A i \in lease[t]["inner"], o \in lease[t]["outer"] : kind[i] = kind[o] => i = o

\* createX never finds its address already registered, so the HERR_UNKNOWN
\* return after it is dead code: no registry entry outlives its object, and
\* two living objects never share an address.
RegisterNeverCollides ==
    \A t \in Threads : At(t, "publish") => registry[Here(t).kind][addr[own[t]]] = NoObject

\* HFDeBugShowResourceStatistics tells the truth: created minus released is the
\* number of registered handles, and released counts each object once.
CountersAgree ==
    \A k \in Kinds :
        /\ created[k] - released[k] = Cardinality({a \in Addresses : registry[k][a] # NoObject})
        /\ released[k] = Cardinality({o \in retired : kind[o] = k})

\* When no call is executing, every living object can still be reached by the
\* clients: it is registered, or a registered capture session pins it.  No
\* sequence of failed, nested or concurrent calls leaks an object.
NoLeakWhenIdle ==
    (\A t \in Threads : call[t] = "none") =>
        \A o \in Objects : Alive(o) =>
            o \in RegisteredObjects \/ \E c \in RegisteredObjects : pin[c] = o

\* "Releasing the public handle removes it from the registry immediately": no
\* call obtains a lease on an object after its release, even when its address
\* has been registered again.
NoLeaseAfterRelease ==
    [][\A t \in Threads, s \in Scopes :
          \A o \in lease'[t][s] \ lease[t][s] : o \notin retired]_vars

\* "destruction is deferred until the final lease ends" and no longer: a
\* released object is destroyed eventually, or is pinned by a capture session
\* whose handle the clients still hold.
ReleasedIsDestroyed ==
    \A o \in Objects :
        (o \in retired) ~> (phase[o] = "dead" \/ \E c \in RegisteredObjects : pin[c] = o)

\* The registry, its leases and the C API programs implement the object
\* lifetimes that ResourceLease documents.
Stage(o) ==
    CASE phase[o] = "fresh" -> "unborn"
      [] phase[o] = "dead" -> "destroyed"
      [] phase[o] = "alive" /\ o \in RegisteredObjects -> "public"
      [] phase[o] = "alive" /\ o \notin RegisteredObjects /\ o \in retired -> "retired"
      [] OTHER -> "private"

Lifetime == INSTANCE ObjectLifetime WITH
    stage <- [o \in Objects |-> Stage(o)],
    users <- [o \in Objects |-> {t \in Threads : own[t] = o \/ o \in Leased(t)}],
    base <- pin

ImplementsLifetime == Lifetime!LifeSpec
=============================================================================
