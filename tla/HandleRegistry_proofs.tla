----------------------- MODULE HandleRegistry_proofs -----------------------
(***************************************************************************)
(* Theorems about HandleRegistry, for any threads, objects, addresses and  *)
(* enabled functions.  The argument: a call reaches its body only past the *)
(* acquire instructions of the handles it dereferences (a fact about the   *)
(* programs, WellFormed), each of which left a lease behind, and a lease   *)
(* keeps the object at the handle's address.  IInv is that argument as an  *)
(* inductive invariant.                                                    *)
(***************************************************************************)
EXTENDS HandleRegistry, TLAPS

Ops == {"acquire", "work", "make", "publish", "leave", "unregister"}

\* What the proofs need of a program: the body uses only handles leased before
\* it; a function makes or releases one object, once, and publishes it last.
WellFormed(p) ==
    /\ p \in Seq([op : Ops, kind : Kinds, scope : Scopes, uses : SUBSET (Kinds \cup {"pinned"})])
    /\ \A i \in 1..Len(p) :
         p[i].op = "work" => \A u \in p[i].uses : \E j \in 1..(i - 1) :
             /\ p[j].op = "acquire" /\ p[j].scope = "outer"
             /\ p[j].kind = IF u = "pinned" THEN "capture" ELSE u
    /\ \A i \in 1..Len(p) :
         p[i].op = "publish" =>
            /\ i = Len(p)
            /\ \E j \in 1..(i - 1) : p[j].op = "make" /\ p[j].kind = p[i].kind
    /\ \A i, j \in 1..Len(p) :
         p[i].op \in {"make", "unregister"} /\ p[j].op \in {"make", "unregister"} => i = j

\* Every C API function modelled leases what it dereferences, before it does.
LEMMA ProgramsWellFormed == \A c \in Calls : WellFormed(Program[c])
<1>1. WellFormed(HFCreateInspireFaceSession)
  BY DEF WellFormed, HFCreateInspireFaceSession, Acquire, Reacquire, Work, Make, Publish, LeaveNested,
     Unregister, Instruction, Ops, Kinds, Scopes
<1>2. WellFormed(HFCreateImageStream)
  BY DEF WellFormed, HFCreateImageStream, Acquire, Reacquire, Work, Make, Publish, LeaveNested,
     Unregister, Instruction, Ops, Kinds, Scopes
<1>3. WellFormed(HFCreateImageBitmap)
  BY DEF WellFormed, HFCreateImageBitmap, Acquire, Reacquire, Work, Make, Publish, LeaveNested,
     Unregister, Instruction, Ops, Kinds, Scopes
<1>4. WellFormed(HFCreateImageStreamFromImageBitmap)
  BY DEF WellFormed, HFCreateImageStreamFromImageBitmap, Acquire, Reacquire, Work, Make, Publish, LeaveNested,
     Unregister, Instruction, Ops, Kinds, Scopes
<1>5. WellFormed(HFCreateImageBitmapFromImageStreamProcess)
  BY DEF WellFormed, HFCreateImageBitmapFromImageStreamProcess, Acquire, Reacquire, Work, Make, Publish, LeaveNested,
     Unregister, Instruction, Ops, Kinds, Scopes
<1>6. WellFormed(HFFaceGetFaceAlignmentImage)
  BY DEF WellFormed, HFFaceGetFaceAlignmentImage, Acquire, Reacquire, Work, Make, Publish, LeaveNested,
     Unregister, Instruction, Ops, Kinds, Scopes
<1>7. WellFormed(HFSessionClearTrackingFace)
  BY DEF WellFormed, HFSessionClearTrackingFace, Acquire, Reacquire, Work, Make, Publish, LeaveNested,
     Unregister, Instruction, Ops, Kinds, Scopes
<1>8. WellFormed(HFExecuteFaceTrack)
  BY DEF WellFormed, HFExecuteFaceTrack, Acquire, Reacquire, Work, Make, Publish, LeaveNested,
     Unregister, Instruction, Ops, Kinds, Scopes
<1>9. WellFormed(HFExecuteFaceTrackSnapshot)
  BY DEF WellFormed, HFExecuteFaceTrackSnapshot, Acquire, Reacquire, Work, Make, Publish, LeaveNested,
     Unregister, Instruction, Ops, Kinds, Scopes
<1>10. WellFormed(HFGetFaceResultSnapshotData)
  BY DEF WellFormed, HFGetFaceResultSnapshotData, Acquire, Reacquire, Work, Make, Publish, LeaveNested,
     Unregister, Instruction, Ops, Kinds, Scopes
<1>11. WellFormed(HFCreateFaceCaptureSession)
  BY DEF WellFormed, HFCreateFaceCaptureSession, Acquire, Reacquire, Work, Make, Publish, LeaveNested,
     Unregister, Instruction, Ops, Kinds, Scopes
<1>12. WellFormed(HFUpdateFaceCaptureSession)
  BY DEF WellFormed, HFUpdateFaceCaptureSession, Acquire, Reacquire, Work, Make, Publish, LeaveNested,
     Unregister, Instruction, Ops, Kinds, Scopes
<1>13. WellFormed(HFUpdateFaceCaptureSessionWithSnapshot)
  BY DEF WellFormed, HFUpdateFaceCaptureSessionWithSnapshot, Acquire, Reacquire, Work, Make, Publish, LeaveNested,
     Unregister, Instruction, Ops, Kinds, Scopes
<1>14. WellFormed(HFGetFaceCaptureResults)
  BY DEF WellFormed, HFGetFaceCaptureResults, Acquire, Reacquire, Work, Make, Publish, LeaveNested,
     Unregister, Instruction, Ops, Kinds, Scopes
<1>15. WellFormed(HFReleaseInspireFaceSession)
  BY DEF WellFormed, HFReleaseInspireFaceSession, Acquire, Reacquire, Work, Make, Publish, LeaveNested,
     Unregister, Instruction, Ops, Kinds, Scopes
<1>16. WellFormed(HFReleaseImageStream)
  BY DEF WellFormed, HFReleaseImageStream, Acquire, Reacquire, Work, Make, Publish, LeaveNested,
     Unregister, Instruction, Ops, Kinds, Scopes
<1>17. WellFormed(HFReleaseImageBitmap)
  BY DEF WellFormed, HFReleaseImageBitmap, Acquire, Reacquire, Work, Make, Publish, LeaveNested,
     Unregister, Instruction, Ops, Kinds, Scopes
<1>18. WellFormed(HFReleaseFaceResultSnapshot)
  BY DEF WellFormed, HFReleaseFaceResultSnapshot, Acquire, Reacquire, Work, Make, Publish, LeaveNested,
     Unregister, Instruction, Ops, Kinds, Scopes
<1>19. WellFormed(HFReleaseFaceCaptureSession)
  BY DEF WellFormed, HFReleaseFaceCaptureSession, Acquire, Reacquire, Work, Make, Publish, LeaveNested,
     Unregister, Instruction, Ops, Kinds, Scopes
<1>20. WellFormed(HFImageBitmapCopy)
  BY DEF WellFormed, HFImageBitmapCopy, Acquire, Reacquire, Work, Make, Publish, LeaveNested,
     Unregister, Instruction, Ops, Kinds, Scopes
<1> QED
  BY <1>1, <1>2, <1>3, <1>4, <1>5, <1>6, <1>7, <1>8, <1>9, <1>10, <1>11, <1>12, <1>13, <1>14, <1>15, <1>16, <1>17, <1>18, <1>19, <1>20 DEF Program, Calls

-----------------------------------------------------------------------------
(* The inductive invariant. *)

Fresh(o) == phase[o] = "fresh"

\* A registry entry owns a living object of its kind, at its address.
RegistryOwns ==
    \A k \in Kinds, a \in Addresses : registry[k][a] # NoObject =>
        /\ Alive(registry[k][a])
        /\ kind[registry[k][a]] = k
        /\ addr[registry[k][a]] = a

\* Two living objects never share an address.
AddressesDistinct ==
    /\ \A o \in Objects : Alive(o) => addr[o] \in Addresses /\ kind[o] \in Kinds
    /\ \A o, p \in Objects : Alive(o) /\ Alive(p) /\ addr[o] = addr[p] => o = p

\* Handles in the hands of clients, hence arguments, are of allocated objects.
HandlesIssued ==
    /\ \A o \in published : ~Fresh(o)
    /\ \A t \in Threads, k \in Kinds : arg[t][k] # NoObject => ~Fresh(arg[t][k])

\* A lease keeps the object at the handle that was passed for its kind.
LeasesPin ==
    \A t \in Threads, s \in Scopes : \A o \in lease[t][s] :
        Alive(o) /\ addr[o] = Handle(t, kind[o])

LocalsOwn == \A t \in Threads : own[t] # NoObject => Alive(own[t])

\* A capture's session_lease owns the session its raw pointer names.
CapturesPin ==
    \A c \in Objects :
        /\ pin[c] # NoObject => ~Fresh(pin[c]) /\ kind[pin[c]] = "session"
        /\ Alive(c) /\ kind[c] = "capture" =>
             /\ pin[c] # NoObject
             /\ Alive(pin[c])
             /\ target[c] = addr[pin[c]]

\* A call past its make instruction is building an object of its own.
Building(t) ==
    Running(t) /\ \E j \in 1..(pc[t] - 1) : Program[call[t]][j].op = "make"

BuildersPrivate ==
    \A t \in Threads : Building(t) =>
        /\ own[t] # NoObject
        /\ own[t] \notin RegisteredObjects
        /\ \A u \in Threads \ {t} : own[u] # own[t]
        /\ \A j \in 1..(pc[t] - 1) :
             Program[call[t]][j].op = "make" => kind[own[t]] = Program[call[t]][j].kind

\* A running call holds the leases its program has acquired so far.
LeasesHeld ==
    \A t \in Threads : Running(t) =>
        \A j \in 1..(pc[t] - 1) :
            Program[call[t]][j].op = "acquire" /\ Program[call[t]][j].scope = "outer" =>
                \E o \in lease[t]["outer"] : kind[o] = Program[call[t]][j].kind

\* A thread outside the API holds no lease.
IdleHoldsNothing ==
    \A t \in Threads : call[t] = "none" => \A s \in Scopes : lease[t][s] = {}

\* The inductive invariant.
IInv ==
    /\ TypeOK
    /\ IdleHoldsNothing
    /\ RegistryOwns
    /\ AddressesDistinct
    /\ HandlesIssued
    /\ LeasesPin
    /\ LocalsOwn
    /\ CapturesPin
    /\ BuildersPrivate
    /\ LeasesHeld

-----------------------------------------------------------------------------
(* Typing. *)

\* An instruction of a well-formed program has its fields in range.
LEMMA InstructionTyped ==
    ASSUME NEW p, WellFormed(p), NEW i \in DOMAIN p
    PROVE  /\ Len(p) \in Nat /\ i \in 1..Len(p)
           /\ p[i].kind \in Kinds /\ p[i].scope \in Scopes /\ p[i].op \in Ops
<1> DEFINE R == [op : Ops, kind : Kinds, scope : Scopes, uses : SUBSET (Kinds \cup {"pinned"})]
<1>1. p \in Seq(R)
  BY DEF WellFormed
<1>2. DOMAIN p = 1..Len(p) /\ Len(p) \in Nat /\ p[i] \in R
  <2> HIDE DEF R
  <2> QED BY <1>1
<1> QED
  BY <1>2

\* What every step of a running call may rely on.
LEMMA HereTyped ==
    ASSUME TypeOK, NEW t \in Threads, Running(t)
    PROVE  /\ call[t] \in Calls
           /\ pc[t] \in 1..Len(Program[call[t]])
           /\ Len(Program[call[t]]) \in Nat
           /\ Here(t) = Program[call[t]][pc[t]]
           /\ Here(t).kind \in Kinds /\ Here(t).scope \in Scopes /\ Here(t).op \in Ops
           /\ WellFormed(Program[call[t]])
<1>1. call[t] \in Calls
  BY DEF TypeOK, Running
<1>2. WellFormed(Program[call[t]])
  BY <1>1, ProgramsWellFormed
<1>3. pc[t] \in DOMAIN Program[call[t]]
  BY DEF Running
<1> HIDE DEF Ops
<1> QED
  BY <1>1, <1>2, <1>3, InstructionTyped DEF Here

\* Initially no object exists and no thread is in a call: every variable typed.
LEMMA TypeInit == Init => TypeOK
BY HandleAssumption DEF Init, TypeOK, NoArgs, NoLeases

\* A handle is an address or null.
LEMMA HandleTyped ==
    ASSUME TypeOK, NEW t \in Threads, NEW k \in Kinds
    PROVE  Handle(t, k) \in Addresses \cup {Null}
BY DEF TypeOK, Handle

\* Entering a C API function keeps every variable in its type.
LEMMA TypeInvoke ==
    ASSUME TypeOK, NEW t \in Threads, Invoke(t)
    PROVE  TypeOK'
<1>1. PICK c \in EnabledCalls :
        /\ call' = [call EXCEPT ![t] = c]
        /\ \E passed \in [ArgKinds(c) -> published \cup {NoObject}] :
             /\ \A k \in ArgKinds(c) : passed[k] \in Passable(k)
             /\ arg' = [arg EXCEPT ![t] =
                          [k \in Kinds |-> IF k \in ArgKinds(c) THEN passed[k] ELSE NoObject]]
  BY DEF Invoke
<1>2. PICK passed \in [ArgKinds(c) -> published \cup {NoObject}] :
          arg' = [arg EXCEPT ![t] =
                   [k \in Kinds |-> IF k \in ArgKinds(c) THEN passed[k] ELSE NoObject]]
  BY <1>1
<1>3. c \in Calls /\ c # "none"
  BY HandleAssumption DEF Calls, Program
<1>4. \A k \in ArgKinds(c) : passed[k] \in Objects \cup {NoObject}
  BY <1>2 DEF TypeOK
<1>5. Len(Program[c]) \in Nat
  BY <1>3, ProgramsWellFormed DEF WellFormed
<1>6. [k \in Kinds |-> IF k \in ArgKinds(c) THEN passed[k] ELSE NoObject]
         \in [Kinds -> Objects \cup {NoObject}]
  BY <1>4
<1>7. call' \in [Threads -> Calls \cup {"none"}]
  BY <1>1, <1>3 DEF TypeOK
<1>8. arg' \in [Threads -> [Kinds -> Objects \cup {NoObject}]]
  BY <1>2, <1>6 DEF TypeOK
<1>9. pc' \in [Threads -> Nat \ {0}] /\ \A u \in Threads : call'[u] # "none" => pc'[u] <= Len(Program[call'[u]]) + 1
  BY <1>1, <1>5 DEF TypeOK, Invoke
<1> QED
  BY <1>7, <1>8, <1>9 DEF TypeOK, Invoke, heap, manager, history

\* Where a step leaves the program counter.
LEMMA PcTyped ==
    ASSUME TypeOK, NEW t \in Threads, Running(t), Advance(t) \/ GiveUp(t), UNCHANGED call
    PROVE  /\ pc' \in [Threads -> Nat \ {0}]
           /\ \A u \in Threads : call'[u] # "none" => pc'[u] <= Len(Program[call'[u]]) + 1
<1>1. pc[t] \in 1..Len(Program[call[t]]) /\ Len(Program[call[t]]) \in Nat
  BY HereTyped
<1>2. PICK i \in Nat \ {0} : pc' = [pc EXCEPT ![t] = i] /\ i <= Len(Program[call[t]]) + 1
  BY <1>1 DEF Advance, GiveUp, Goto
<1> QED
  BY <1>2 DEF TypeOK

\* Destroying the objects that have lost their owners keeps phase in its type.
LEMMA ReapTyped ==
    ASSUME TypeOK, Reap
    PROVE  phase' \in [Objects -> {"fresh", "alive", "dead"}]
BY DEF TypeOK, Reap

\* What make_shared returns.
LEMMA ConstructFacts ==
    ASSUME TypeOK, NEW t \in Threads, Construct(t)
    PROVE  \E o \in Objects, a \in FreeAddresses, s \in PinOf(t, Here(t).kind) :
             /\ Fresh(o)
             /\ s \in Objects \cup {NoObject}
             /\ phase' = [phase EXCEPT ![o] = "alive"]
             /\ kind' = [kind EXCEPT ![o] = Here(t).kind]
             /\ addr' = [addr EXCEPT ![o] = a]
             /\ pin' = [pin EXCEPT ![o] = s]
             /\ target' = [target EXCEPT ![o] =
                             IF Here(t).kind = "capture" THEN Handle(t, "session") ELSE Null]
             /\ own' = [own EXCEPT ![t] = o]
<1> DEFINE o == CHOOSE p \in Objects : phase[p] = "fresh"
<1>1. o \in Objects /\ Fresh(o)
  BY DEF Construct, Fresh
<1>2. PinOf(t, Here(t).kind) \subseteq Objects \cup {NoObject}
  BY DEF PinOf, TypeOK, Scopes
<1> QED
  BY <1>1, <1>2 DEF Construct

\* A call about to publish owns a private object of the right kind.
LEMMA PublishFacts ==
    ASSUME TypeOK, BuildersPrivate, NEW t \in Threads, At(t, "publish")
    PROVE  /\ own[t] \in Objects
           /\ own[t] \notin RegisteredObjects
           /\ kind[own[t]] = Here(t).kind
           /\ Building(t)
           /\ pc[t] = Len(Program[call[t]])
<1>1. PICK j \in 1..(pc[t] - 1) :
         /\ Program[call[t]][j].op = "make"
         /\ Program[call[t]][j].kind = Here(t).kind
  BY HereTyped DEF At, WellFormed
<1>2. Building(t)
  BY <1>1 DEF Building, At
<1>3. pc[t] = Len(Program[call[t]])
  BY HereTyped DEF At, WellFormed
<1> QED
  BY <1>1, <1>2, <1>3 DEF BuildersPrivate, TypeOK

\* No step takes a variable out of its type.
LEMMA TypeStep ==
    ASSUME TypeOK, BuildersPrivate, NEW t \in Threads, Step(t)
    PROVE  TypeOK'
<1>1. CASE AcquireLease(t)
  <2>1. Running(t) /\ Here(t).kind \in Kinds /\ Here(t).scope \in Scopes
    BY <1>1, HereTyped DEF AcquireLease, At
  <2>2. lease' \in [Threads -> [Scopes -> SUBSET Objects]]
    <3> DEFINE k == Here(t).kind
               s == Here(t).scope
               h == Handle(t, k)
    <3>1. CASE Registered(k, h)
      <4>1. h \in Addresses /\ registry[k][h] \in Objects
        BY <2>1, <3>1, HandleTyped DEF Registered, TypeOK
      <4>2. lease' = [lease EXCEPT ![t][s] = @ \cup {registry[k][h]}]
        BY <1>1, <3>1 DEF AcquireLease
      <4> QED
        BY <2>1, <4>1, <4>2 DEF TypeOK
    <3>2. CASE ~Registered(k, h)
      BY <1>1, <3>2 DEF AcquireLease, TypeOK
    <3> QED
      BY <3>1, <3>2
  <2> QED
    BY <1>1, <2>1, <2>2, PcTyped DEF AcquireLease, TypeOK, heap, manager, history
<1>2. CASE DoWork(t)
  BY <1>2, PcTyped DEF DoWork, At, TypeOK, heap, manager, history
<1>3. CASE Construct(t)
  <2>1. Running(t) /\ Here(t).kind \in Kinds
    BY <1>3, HereTyped DEF Construct, At
  <2>2. PICK o \in Objects, a \in Addresses, s \in Objects \cup {NoObject} :
          /\ phase' = [phase EXCEPT ![o] = "alive"]
          /\ kind' = [kind EXCEPT ![o] = Here(t).kind]
          /\ addr' = [addr EXCEPT ![o] = a]
          /\ pin' = [pin EXCEPT ![o] = s]
          /\ target' = [target EXCEPT ![o] =
                          IF Here(t).kind = "capture" THEN Handle(t, "session") ELSE Null]
          /\ own' = [own EXCEPT ![t] = o]
    BY <1>3, ConstructFacts DEF FreeAddresses
  <2>3. Handle(t, "session") \in Addresses \cup {Null}
    BY HandleTyped DEF Kinds
  <2>4. target' \in [Objects -> Addresses \cup {Null}]
    BY <2>2, <2>3 DEF TypeOK
  <2> QED
    BY <1>3, <2>1, <2>2, <2>4, PcTyped DEF Construct, TypeOK, manager, history
<1>4. CASE ConstructFails(t)
  BY <1>4, PcTyped DEF ConstructFails, At, TypeOK, heap, manager, history
<1>5. CASE Register(t)
  <2>1. Running(t) /\ Here(t).kind \in Kinds
    BY <1>5, HereTyped DEF Register, At
  <2>2. own[t] \in Objects
    BY <1>5, PublishFacts DEF Register
  <2> DEFINE k == Here(t).kind
  <2>3. CASE Registered(k, addr[own[t]])
    BY <1>5, <2>1, <2>3, PcTyped DEF Register, TypeOK, heap
  <2>4. CASE ~Registered(k, addr[own[t]])
    <3>1. /\ registry' = [registry EXCEPT ![k][addr[own[t]]] = own[t]]
          /\ created' = [created EXCEPT ![k] = @ + 1]
          /\ published' = published \cup {own[t]}
      BY <1>5, <2>4 DEF Register
    <3>2. registry' \in [Kinds -> [Addresses -> Objects \cup {NoObject}]]
      BY <2>1, <2>2, <3>1 DEF TypeOK
    <3>3. created' \in [Kinds -> Nat] /\ published' \subseteq Objects
      BY <2>1, <2>2, <3>1 DEF TypeOK
    <3> QED
      BY <1>5, <2>1, <2>4, <3>2, <3>3, PcTyped DEF Register, TypeOK, heap
  <2> QED
    BY <2>3, <2>4
<1>6. CASE ReturnNested(t)
  BY <1>6, PcTyped, ReapTyped DEF ReturnNested, At, TypeOK, manager, history, Scopes
<1>7. CASE Release(t)
  <2>1. Running(t) /\ Here(t).kind \in Kinds
    BY <1>7, HereTyped DEF Release, EraseEntry, CountRelease, At
  <2> DEFINE k == Here(t).kind
             h == Handle(t, k)
  <2>2. CASE ~Registered(k, h)
    BY <1>7, <2>1, <2>2, PcTyped, ReapTyped DEF Release, EraseEntry, CountRelease, TypeOK
  <2>3. CASE Registered(k, h)
    <3>1. h \in Addresses /\ registry[k][h] \in Objects
      BY <2>1, <2>3, HandleTyped DEF Registered, TypeOK
    <3>2. /\ own' = [own EXCEPT ![t] = registry[k][h]]
          /\ registry' = [registry EXCEPT ![k][h] = NoObject]
          /\ released' = [released EXCEPT ![k] = @ + 1]
          /\ retired' = retired \cup {registry[k][h]}
      BY <1>7, <2>3 DEF Release, EraseEntry, CountRelease
    <3>3. registry' \in [Kinds -> [Addresses -> Objects \cup {NoObject}]]
      BY <2>1, <3>1, <3>2 DEF TypeOK
    <3>4. /\ own' \in [Threads -> Objects \cup {NoObject}]
          /\ released' \in [Kinds -> Nat]
          /\ retired' \subseteq Objects
      BY <2>1, <3>1, <3>2 DEF TypeOK
    <3> QED
      BY <1>7, <2>1, <2>3, <3>3, <3>4, PcTyped, ReapTyped DEF Release, EraseEntry, CountRelease, TypeOK
  <2> QED
    BY <2>2, <2>3
<1>8. CASE Return(t)
  BY <1>8, ReapTyped DEF Return, DropLocals, TypeOK, NoArgs, NoLeases, manager, history
<1> QED
  BY <1>1, <1>2, <1>3, <1>4, <1>5, <1>6, <1>7, <1>8 DEF Step

-----------------------------------------------------------------------------
(* Invariance of IInv, one lemma per action. *)

\* The empty registry satisfies the invariant.
LEMMA InvInit == Init => IInv
<1> SUFFICES ASSUME Init PROVE IInv
  OBVIOUS
<1>1. TypeOK
  BY TypeInit
<1>2. RegistryOwns /\ AddressesDistinct /\ HandlesIssued /\ LocalsOwn
  BY DEF Init, RegistryOwns, AddressesDistinct, HandlesIssued, LocalsOwn, Alive, NoArgs
<1>3. LeasesPin /\ IdleHoldsNothing
  BY DEF Init, LeasesPin, IdleHoldsNothing, NoLeases
<1>4. CapturesPin /\ BuildersPrivate /\ LeasesHeld
  BY DEF Init, CapturesPin, BuildersPrivate, LeasesHeld, Building, Running, Alive
<1> QED
  BY <1>1, <1>2, <1>3, <1>4 DEF IInv

\* A client passes only handles it was given.
LEMMA InvInvoke ==
    ASSUME IInv, NEW t \in Threads, Invoke(t)
    PROVE  IInv'
<1> USE DEF IInv
<1>1. TypeOK'
  BY TypeInvoke
<1>2. RegistryOwns' /\ AddressesDistinct' /\ LocalsOwn' /\ CapturesPin'
  BY DEF Invoke, RegistryOwns, AddressesDistinct, LocalsOwn, CapturesPin, Alive, Fresh,
         heap, manager
<1>3. HandlesIssued'
  <2>1. \A u \in Threads, k \in Kinds :
          arg'[u][k] = arg[u][k] \/ arg'[u][k] \in published \cup {NoObject}
    BY DEF Invoke, TypeOK
  <2> QED
    BY <2>1 DEF Invoke, HandlesIssued, Fresh, heap, history
<1>4. IdleHoldsNothing' /\ LeasesPin'
  <2>1. \A s \in Scopes : lease'[t][s] = {}
    BY DEF Invoke, IdleHoldsNothing
  <2>2. \A u \in Threads \ {t} : arg'[u] = arg[u] /\ call'[u] = call[u]
    BY DEF Invoke, TypeOK
  <2>3. UNCHANGED <<lease, addr, kind, phase>>
    BY DEF Invoke, heap
  <2> QED
    BY <2>1, <2>2, <2>3 DEF IdleHoldsNothing, LeasesPin, Handle, Alive
<1>5. BuildersPrivate' /\ LeasesHeld'
  <2>1. pc'[t] = 1
    BY DEF Invoke, TypeOK
  <2>2. \A u \in Threads \ {t} : pc'[u] = pc[u] /\ call'[u] = call[u]
    BY DEF Invoke, TypeOK
  <2>3. UNCHANGED <<own, lease, kind, registry>>
    BY DEF Invoke, heap, manager
  <2> QED
    BY <2>1, <2>2, <2>3 DEF BuildersPrivate, LeasesHeld, Building, Running, RegisteredObjects
<1> QED
  BY <1>1, <1>2, <1>3, <1>4, <1>5

\* How the program counter of a step moves: on to the next instruction, or to
\* the end of the program; other threads stay where they are.
LEMMA PcMoves ==
    ASSUME TypeOK, NEW t \in Threads, Running(t), Advance(t) \/ GiveUp(t), UNCHANGED call
    PROVE  /\ \A u \in Threads \ {t} : pc'[u] = pc[u]
           /\ Advance(t) => pc'[t] = pc[t] + 1
           /\ Running(t)' => Advance(t)
<1>1. pc[t] \in 1..Len(Program[call[t]]) /\ Len(Program[call[t]]) \in Nat
  BY HereTyped
<1>2. DOMAIN Program[call[t]] = 1..Len(Program[call[t]])
  BY HereTyped DEF WellFormed
<1> QED
  BY <1>1, <1>2 DEF Advance, GiveUp, Goto, Running, TypeOK

\* Only a make instruction begins the building of an object.
LEMMA BuildingBack ==
    ASSUME TypeOK, NEW t \in Threads, Running(t), Advance(t) \/ GiveUp(t), UNCHANGED call,
           Here(t).op # "make", NEW u \in Threads, Building(u)'
    PROVE  /\ Building(u)
           /\ \A j \in 1..(pc'[u] - 1) :
                Program[call'[u]][j].op = "make" => j \in 1..(pc[u] - 1)
<1>1. CASE u # t
  BY <1>1, PcMoves DEF Building, Running
<1>2. CASE u = t
  <2>1. pc'[t] = pc[t] + 1 /\ pc[t] \in Nat
    BY <1>2, PcMoves, HereTyped DEF Building
  <2>2. \A j \in 1..(pc'[t] - 1) :
          Program[call'[t]][j].op = "make" => j \in 1..(pc[t] - 1)
    BY <2>1 DEF Here
  <2> QED
    BY <1>2, <2>1, <2>2 DEF Building
<1> QED
  BY <1>1, <1>2

\* LeasesHeld survives a step that ends no outer lease and, at an acquire
\* instruction, obtains one.
LEMMA LeasesHeldStep ==
    ASSUME TypeOK, LeasesHeld, NEW t \in Threads, Running(t), Advance(t) \/ GiveUp(t),
           UNCHANGED call,
           \A u \in Threads : \A o \in lease[u]["outer"] :
                o \in lease'[u]["outer"] /\ kind'[o] = kind[o],
           Here(t).op = "acquire" /\ Here(t).scope = "outer" /\ Running(t)' =>
                \E o \in lease'[t]["outer"] : kind'[o] = Here(t).kind
    PROVE  LeasesHeld'
<1> SUFFICES ASSUME NEW u \in Threads, Running(u)', NEW j \in 1..(pc'[u] - 1),
                    Program[call[u]][j].op = "acquire",
                    Program[call[u]][j].scope = "outer"
             PROVE  \E o \in lease'[u]["outer"] : kind'[o] = Program[call[u]][j].kind
  BY DEF LeasesHeld
<1>1. CASE u # t
  BY <1>1, PcMoves DEF LeasesHeld, Running
<1>2. CASE u = t
  <2>1. pc'[t] = pc[t] + 1 /\ pc[t] \in Nat /\ Advance(t)
    BY <1>2, PcMoves, HereTyped
  <2>2. CASE j = pc[t]
    BY <1>2, <2>1, <2>2 DEF Here, Running
  <2>3. CASE j # pc[t]
    BY <1>2, <2>1, <2>3 DEF LeasesHeld
  <2> QED
    BY <2>2, <2>3
<1> QED
  BY <1>1, <1>2

\* acquireX leases the object registered under the handle.
LEMMA InvAcquire ==
    ASSUME IInv, NEW t \in Threads, AcquireLease(t)
    PROVE  IInv'
<1> USE DEF IInv
<1>1. TypeOK'
  BY TypeStep DEF Step
<1>2. RegistryOwns' /\ AddressesDistinct' /\ LocalsOwn' /\ CapturesPin' /\ HandlesIssued'
  BY DEF AcquireLease, RegistryOwns, AddressesDistinct, LocalsOwn, CapturesPin,
         HandlesIssued, Alive, Fresh, heap, manager, history
<1> DEFINE k == Here(t).kind
           s == Here(t).scope
           h == Handle(t, k)
<1>3. Running(t) /\ k \in Kinds /\ s \in Scopes
  BY HereTyped DEF AcquireLease, At
<1>4. UNCHANGED <<call, arg, own, phase, kind, addr, registry>>
  BY DEF AcquireLease, heap, manager
<1>5. Advance(t) \/ GiveUp(t)
  BY DEF AcquireLease
<1>6. \A u \in Threads, x \in Scopes :
        /\ lease[u][x] \subseteq lease'[u][x]
        /\ \A o \in lease'[u][x] : o \in lease[u][x] \/
              (u = t /\ Registered(k, h) /\ o = registry[k][h])
        /\ u # t => lease'[u] = lease[u]
  <2>1. CASE Registered(k, h)
    <3>1. lease' = [lease EXCEPT ![t][s] = @ \cup {registry[k][h]}]
      BY <2>1 DEF AcquireLease
    <3> HIDE DEF k, s, h
    <3> QED
      BY <1>3, <2>1, <3>1 DEF TypeOK
  <2>2. CASE ~Registered(k, h)
    BY <2>2 DEF AcquireLease
  <2> QED
    BY <2>1, <2>2
<1>7. IdleHoldsNothing'
  BY <1>3, <1>4, <1>6 DEF IdleHoldsNothing, Running
<1>8. LeasesPin'
  <2>1. Registered(k, h) => /\ Alive(registry[k][h])
                            /\ kind[registry[k][h]] = k
                            /\ addr[registry[k][h]] = h
    BY <1>3, HandleTyped DEF Registered, RegistryOwns
  <2>2. ASSUME NEW u \in Threads, NEW x \in Scopes, NEW o \in lease'[u][x]
        PROVE  Alive(o) /\ addr[o] = Handle(u, kind[o])
    BY <1>6, <2>1, <2>2 DEF LeasesPin
  <2> QED
    BY <1>4, <2>2 DEF LeasesPin, Handle, Alive
<1>9. BuildersPrivate'
  <2>1. Here(t).op # "make"
    BY DEF AcquireLease, At
  <2> QED
    BY <1>3, <1>4, <1>5, <2>1, BuildingBack DEF BuildersPrivate, RegisteredObjects
<1>10. LeasesHeld'
  <2>1. \A u \in Threads : \A o \in lease[u]["outer"] : o \in lease'[u]["outer"]
    BY <1>6 DEF Scopes
  <2>2. ASSUME s = "outer", Running(t)'
        PROVE  \E o \in lease'[t]["outer"] : kind'[o] = k
    <3>1. Registered(k, h)
      <4>1. ~GiveUp(t)
        BY <1>3, <1>4, <2>2, HereTyped DEF GiveUp, Goto, Running, TypeOK, WellFormed
      <4> QED
        BY <4>1 DEF AcquireLease
    <3>2. lease' = [lease EXCEPT ![t][s] = @ \cup {registry[k][h]}]
      BY <3>1 DEF AcquireLease
    <3>3. registry[k][h] \in lease'[t]["outer"]
      BY <1>3, <2>2, <3>2 DEF TypeOK
    <3>4. kind[registry[k][h]] = k
      BY <1>3, <3>1, HandleTyped DEF Registered, RegistryOwns
    <3> QED
      BY <1>4, <3>3, <3>4
  <2> QED
    BY <1>3, <1>4, <1>5, <2>1, <2>2, LeasesHeldStep
<1> QED
  BY <1>1, <1>2, <1>7, <1>8, <1>9, <1>10

\* The body, and a failing make_shared, move the program counter only.
LEMMA InvPcOnly ==
    ASSUME IInv, NEW t \in Threads, DoWork(t) \/ ConstructFails(t)
    PROVE  IInv'
<1> USE DEF IInv
<1>1. TypeOK'
  BY TypeStep DEF Step
<1>2. /\ UNCHANGED <<heap, manager, call, arg, lease, own, history>>
      /\ Running(t)
      /\ Here(t).op # "acquire"
  BY DEF DoWork, ConstructFails, At
<1>3. Advance(t) \/ GiveUp(t)
  BY DEF DoWork, ConstructFails
<1>4. RegistryOwns' /\ AddressesDistinct' /\ LocalsOwn' /\ CapturesPin' /\ HandlesIssued'
  BY <1>2 DEF RegistryOwns, AddressesDistinct, LocalsOwn, CapturesPin, HandlesIssued,
              Alive, Fresh, heap, manager, history
<1>5. IdleHoldsNothing' /\ LeasesPin'
  BY <1>2 DEF IdleHoldsNothing, LeasesPin, Handle, Alive, heap
<1>6. BuildersPrivate'
  <2>1. CASE Here(t).op # "make"
    BY <1>2, <1>3, <2>1, BuildingBack DEF BuildersPrivate, RegisteredObjects, heap, manager
  <2>2. CASE Here(t).op = "make"
    <3>1. ConstructFails(t) /\ GiveUp(t) /\ ~Running(t)'
      BY <1>2, <2>2, HereTyped DEF DoWork, ConstructFails, At, GiveUp, Goto, Running, TypeOK, WellFormed
    <3>2. \A u \in Threads \ {t} : pc'[u] = pc[u]
      BY <1>2, <1>3, PcMoves
    <3> QED
      BY <1>2, <3>1, <3>2 DEF BuildersPrivate, Building, Running, RegisteredObjects, heap, manager
  <2> QED
    BY <2>1, <2>2
<1>7. LeasesHeld'
  BY <1>2, <1>3, LeasesHeldStep DEF heap
<1> QED
  BY <1>1, <1>4, <1>5, <1>6, <1>7

\* createX registers the object its caller alone owns.
LEMMA InvRegister ==
    ASSUME IInv, NEW t \in Threads, Register(t)
    PROVE  IInv'
<1> USE DEF IInv
<1> DEFINE k == Here(t).kind
           o == own[t]
<1>1. TypeOK'
  BY TypeStep DEF Step
<1>2. /\ UNCHANGED <<heap, call, arg, lease, own>>
      /\ Running(t)
      /\ Here(t).op = "publish"
      /\ Advance(t) \/ GiveUp(t)
      /\ k \in Kinds
  BY HereTyped DEF Register, At
<1>3. /\ o \in Objects /\ Alive(o) /\ o \notin RegisteredObjects /\ kind[o] = k
      /\ addr[o] \in Addresses /\ Building(t) /\ pc[t] = Len(Program[call[t]])
  BY PublishFacts, HandleAssumption DEF Register, LocalsOwn, AddressesDistinct
<1>4. \A x \in Kinds, a \in Addresses :
        registry'[x][a] = registry[x][a] \/ (x = k /\ a = addr[o] /\ registry'[x][a] = o)
  BY <1>2, <1>3 DEF Register, TypeOK
<1>5. published' \subseteq published \cup {o}
  BY DEF Register
<1>6. RegistryOwns'
  BY <1>2, <1>3, <1>4 DEF RegistryOwns, Alive, heap
<1>7. AddressesDistinct' /\ LocalsOwn' /\ CapturesPin' /\ IdleHoldsNothing' /\ LeasesPin'
  BY <1>2 DEF AddressesDistinct, LocalsOwn, CapturesPin, IdleHoldsNothing, LeasesPin, Handle,
              Alive, Fresh, heap
<1>8. HandlesIssued'
  BY <1>2, <1>3, <1>5 DEF HandlesIssued, Alive, Fresh, heap
<1>9. LeasesHeld'
  BY <1>2, LeasesHeldStep DEF heap
<1>10. BuildersPrivate'
  <2>1. ~Running(t)'
    BY <1>2, <1>3, HereTyped DEF Running, Advance, GiveUp, Goto, TypeOK, WellFormed
  <2>2. SUFFICES ASSUME NEW u \in Threads, Building(u)'
                 PROVE  /\ u # t /\ Building(u) /\ pc'[u] = pc[u]
                        /\ own[u] \notin RegisteredObjects'
    BY <1>2, <2>1 DEF BuildersPrivate, heap
  <2>3. u # t /\ pc'[u] = pc[u] /\ Building(u)
    BY <1>2, <2>1, <2>2, PcMoves DEF Building, Running
  <2>4. RegisteredObjects' \subseteq RegisteredObjects \cup {o}
    BY <1>4 DEF RegisteredObjects
  <2> QED
    BY <2>3, <2>4 DEF BuildersPrivate
<1> QED
  BY <1>1, <1>6, <1>7, <1>8, <1>9, <1>10

\* A step destroys exactly the living objects left without an owner.
LEMMA ReapFacts ==
    ASSUME TypeOK, Reap, NEW o \in Objects
    PROVE  /\ Alive(o)' => Alive(o) /\ o \in Owned'
           /\ Alive(o) /\ o \in Owned' => Alive(o)'
           /\ Fresh(o)' <=> Fresh(o)
BY DEF Reap, TypeOK, Alive, Fresh

\* What every step that drops owners leaves intact.
LEMMA DropKeeps ==
    ASSUME IInv, TypeOK', Reap, UNCHANGED <<kind, addr, pin, target, published>>,
           \A k \in Kinds, a \in Addresses : registry'[k][a] \in {registry[k][a], NoObject},
           \A u \in Threads, s \in Scopes : lease'[u][s] \subseteq lease[u][s],
           \A u \in Threads : own'[u] \in {own[u], NoObject} \cup RegisteredObjects,
           \A u \in Threads : arg'[u] = arg[u] \/
                (arg'[u] = NoArgs /\ \A s \in Scopes : lease'[u][s] = {})
    PROVE  RegistryOwns' /\ AddressesDistinct' /\ HandlesIssued' /\ LeasesPin' /\ LocalsOwn'
             /\ CapturesPin'
<1> USE DEF IInv
<1>1. ASSUME NEW o \in Objects, o \in DirectlyOwned', Alive(o)
      PROVE  Alive(o)'
  BY <1>1, ReapFacts DEF Owned
<1>2. RegistryOwns'
  <2> SUFFICES ASSUME NEW k \in Kinds, NEW a \in Addresses, registry'[k][a] # NoObject
               PROVE  /\ phase'[registry'[k][a]] = "alive"
                      /\ kind[registry'[k][a]] = k /\ addr[registry'[k][a]] = a
    BY DEF RegistryOwns, Alive
  <2>1. registry'[k][a] = registry[k][a] /\ registry[k][a] \in Objects
    BY DEF TypeOK
  <2>2. registry'[k][a] \in DirectlyOwned'
    BY DEF DirectlyOwned
  <2> QED
    BY <1>1, <2>1, <2>2 DEF RegistryOwns, Alive
<1>3. AddressesDistinct'
  BY ReapFacts DEF AddressesDistinct
<1>4. HandlesIssued'
  <2>1. \A u \in Threads, k \in Kinds : arg'[u][k] \in {arg[u][k], NoObject}
    BY DEF NoArgs
  <2>2. \A u \in Threads, k \in Kinds : arg[u][k] \in Objects \cup {NoObject}
    BY DEF TypeOK
  <2> QED
    BY <2>1, <2>2, ReapFacts DEF HandlesIssued, TypeOK
<1>5. LeasesPin'
  <2> SUFFICES ASSUME NEW u \in Threads, NEW s \in Scopes, NEW o \in lease'[u][s]
               PROVE  Alive(o)' /\ addr[o] = Handle(u, kind[o])'
    BY DEF LeasesPin
  <2>1. o \in lease[u][s] /\ o \in Objects /\ arg'[u] = arg[u]
    BY DEF TypeOK
  <2>2. o \in DirectlyOwned'
    BY DEF DirectlyOwned
  <2> QED
    BY <1>1, <2>1, <2>2 DEF LeasesPin, Handle
<1>6. LocalsOwn'
  <2> SUFFICES ASSUME NEW u \in Threads, own'[u] # NoObject
               PROVE  phase'[own'[u]] = "alive"
    BY DEF LocalsOwn, Alive
  <2>1. own'[u] \in Objects /\ own'[u] \in DirectlyOwned'
    BY DEF DirectlyOwned, TypeOK
  <2>2. Alive(own'[u])
    BY DEF LocalsOwn, RegistryOwns, RegisteredObjects
  <2> QED
    BY <1>1, <2>1, <2>2 DEF Alive
<1>7. CapturesPin'
  <2>1. \A c \in Objects : pin[c] \in Objects \cup {NoObject}
    BY DEF TypeOK
  <2>2. ASSUME NEW c \in Objects, Alive(c)', kind[c] = "capture"
        PROVE  Alive(pin[c])'
    <3>1. Alive(c) /\ c \in Owned' /\ pin[c] \in Objects /\ Alive(pin[c])
      BY <2>1, <2>2, ReapFacts DEF CapturesPin
    <3>2. c \notin {pin[d] : d \in DirectlyOwned' \cap Objects}
      BY <2>2, HandleAssumption DEF CapturesPin
    <3>3. c \in DirectlyOwned'
      BY <3>1, <3>2 DEF Owned
    <3>4. pin[c] \in Owned'
      BY <3>3 DEF Owned
    <3> QED
      BY <3>1, <3>4, ReapFacts
  <2> QED
    BY <2>1, <2>2, ReapFacts DEF CapturesPin
<1> QED
  BY <1>2, <1>3, <1>4, <1>5, <1>6, <1>7

\* A nested call ends its own leases, not those of its caller.
LEMMA InvReturnNested ==
    ASSUME IInv, NEW t \in Threads, ReturnNested(t)
    PROVE  IInv'
<1> USE DEF IInv
<1>1. TypeOK'
  BY TypeStep DEF Step
<1>2. /\ UNCHANGED <<kind, addr, pin, target, registry, call, arg, own, published>>
      /\ Running(t) /\ Here(t).op = "leave" /\ Advance(t) /\ Reap
      /\ lease' = [lease EXCEPT ![t]["inner"] = {}]
  BY DEF ReturnNested, At, manager, history
<1>3. \A u \in Threads : /\ lease'[u]["outer"] = lease[u]["outer"]
                          /\ lease'[u]["inner"] \subseteq lease[u]["inner"]
  BY <1>2 DEF TypeOK, Scopes
<1>4. /\ RegistryOwns' /\ AddressesDistinct' /\ HandlesIssued' /\ LeasesPin' /\ LocalsOwn'
      /\ CapturesPin'
  BY <1>1, <1>2, <1>3, DropKeeps DEF Scopes
<1>5. IdleHoldsNothing'
  BY <1>2, <1>3 DEF IdleHoldsNothing, Scopes
<1>6. BuildersPrivate'
  BY <1>2, BuildingBack DEF BuildersPrivate, RegisteredObjects
<1>7. LeasesHeld'
  BY <1>2, <1>3, LeasesHeldStep
<1> QED
  BY <1>1, <1>4, <1>5, <1>6, <1>7

\* releaseX moves an owner from the registry to a local.
LEMMA InvRelease ==
    ASSUME IInv, NEW t \in Threads, Release(t)
    PROVE  IInv'
<1> USE DEF IInv
<1> DEFINE k == Here(t).kind
           h == Handle(t, k)
<1>1. TypeOK'
  BY TypeStep DEF Step
<1>2. /\ UNCHANGED <<kind, addr, pin, target, call, arg, lease, published>>
      /\ Running(t) /\ Here(t).op = "unregister" /\ k \in Kinds /\ Reap
      /\ Advance(t) \/ GiveUp(t)
  BY HereTyped DEF Release, EraseEntry, CountRelease, At
<1>3. /\ \A x \in Kinds, a \in Addresses : registry'[x][a] \in {registry[x][a], NoObject}
      /\ \A u \in Threads \ {t} : own'[u] = own[u]
      /\ own'[t] \in {own[t]} \cup RegisteredObjects
  <2>1. CASE Registered(k, h)
    <3>1. /\ own' = [own EXCEPT ![t] = registry[k][h]]
          /\ registry' = [registry EXCEPT ![k][h] = NoObject]
      BY <2>1 DEF Release, EraseEntry, CountRelease
    <3>2. h \in Addresses /\ registry[k][h] # NoObject
      BY <1>2, <2>1, HandleTyped DEF Registered
    <3> HIDE DEF k, h
    <3>3. registry[k][h] \in RegisteredObjects
      BY <1>2, <3>2 DEF RegisteredObjects
    <3> QED
      BY <1>2, <3>1, <3>2, <3>3 DEF TypeOK
  <2>2. CASE ~Registered(k, h)
    BY <2>2 DEF Release, EraseEntry, CountRelease
  <2> QED
    BY <2>1, <2>2
<1>4. /\ RegistryOwns' /\ AddressesDistinct' /\ HandlesIssued' /\ LeasesPin' /\ LocalsOwn'
      /\ CapturesPin'
  BY <1>1, <1>2, <1>3, DropKeeps
<1>5. IdleHoldsNothing' /\ LeasesHeld'
  BY <1>2, LeasesHeldStep DEF IdleHoldsNothing
<1>6. BuildersPrivate'
  <2>1. RegisteredObjects' \subseteq RegisteredObjects
    BY <1>3 DEF RegisteredObjects
  <2>2. ~Building(t)
    BY <1>2, HereTyped DEF Building, WellFormed, Here
  <2>3. SUFFICES ASSUME NEW u \in Threads, Building(u)'
                 PROVE  /\ own'[u] # NoObject /\ own'[u] \notin RegisteredObjects'
                        /\ \A v \in Threads \ {u} : own'[v] # own'[u]
                        /\ \A j \in 1..(pc'[u] - 1) : Program[call[u]][j].op = "make" =>
                               kind[own'[u]] = Program[call[u]][j].kind
    BY <1>2 DEF BuildersPrivate
  <2>4. /\ Building(u) /\ u # t
        /\ \A j \in 1..(pc'[u] - 1) : Program[call[u]][j].op = "make" => j \in 1..(pc[u] - 1)
    BY <1>2, <2>2, <2>3, BuildingBack
  <2> QED
    BY <1>3, <2>1, <2>4 DEF BuildersPrivate
<1> QED
  BY <1>1, <1>4, <1>5, <1>6

\* A returning call drops its leases and locals, and nothing else.
LEMMA InvReturn ==
    ASSUME IInv, NEW t \in Threads, Return(t)
    PROVE  IInv'
<1> USE DEF IInv
<1>1. TypeOK'
  BY TypeStep DEF Step
<1>2. /\ UNCHANGED <<kind, addr, pin, target, registry, published>> /\ Reap
      /\ call' = [call EXCEPT ![t] = "none"] /\ pc' = [pc EXCEPT ![t] = 1]
      /\ arg' = [arg EXCEPT ![t] = NoArgs] /\ lease' = [lease EXCEPT ![t] = NoLeases]
      /\ own' = [own EXCEPT ![t] = NoObject]
  BY DEF Return, DropLocals, manager, history
<1>3. /\ \A u \in Threads \ {t} : /\ call'[u] = call[u] /\ pc'[u] = pc[u] /\ arg'[u] = arg[u]
                                 /\ lease'[u] = lease[u] /\ own'[u] = own[u]
      /\ call'[t] = "none" /\ arg'[t] = NoArgs /\ own'[t] = NoObject
      /\ \A s \in Scopes : lease'[t][s] = {}
  BY <1>2 DEF TypeOK, NoLeases
<1>4. /\ RegistryOwns' /\ AddressesDistinct' /\ HandlesIssued' /\ LeasesPin' /\ LocalsOwn'
      /\ CapturesPin'
  BY <1>1, <1>2, <1>3, DropKeeps
<1>5. IdleHoldsNothing' /\ LeasesHeld'
  BY <1>2, <1>3 DEF IdleHoldsNothing, LeasesHeld, Running
<1>6. BuildersPrivate'
  BY <1>2, <1>3 DEF BuildersPrivate, Building, Running, RegisteredObjects
<1> QED
  BY <1>1, <1>4, <1>5, <1>6

\* make_shared puts an object at an address no living object occupies.
LEMMA InvConstruct ==
    ASSUME IInv, NEW t \in Threads, Construct(t)
    PROVE  IInv'
<1> USE DEF IInv
<1>1. TypeOK'
  BY TypeStep DEF Step
<1>2. PICK o \in Objects, a \in FreeAddresses, s \in PinOf(t, Here(t).kind) :
        /\ Fresh(o)
        /\ s \in Objects \cup {NoObject}
        /\ phase' = [phase EXCEPT ![o] = "alive"]
        /\ kind' = [kind EXCEPT ![o] = Here(t).kind]
        /\ addr' = [addr EXCEPT ![o] = a]
        /\ pin' = [pin EXCEPT ![o] = s]
        /\ target' = [target EXCEPT ![o] =
                        IF Here(t).kind = "capture" THEN Handle(t, "session") ELSE Null]
        /\ own' = [own EXCEPT ![t] = o]
  BY ConstructFacts
<1>3. /\ UNCHANGED <<registry, call, arg, lease, published>>
      /\ Running(t) /\ Here(t).op = "make" /\ Here(t).kind \in Kinds /\ Advance(t)
  BY HereTyped DEF Construct, At, manager, history
<1>4. \A p \in Objects \ {o} : /\ phase'[p] = phase[p] /\ kind'[p] = kind[p]
                             /\ addr'[p] = addr[p] /\ pin'[p] = pin[p]
                             /\ target'[p] = target[p]
  BY <1>2 DEF TypeOK
<1>5. phase'[o] = "alive" /\ kind'[o] = Here(t).kind /\ addr'[o] = a /\ pin'[o] = s
  BY <1>2 DEF TypeOK
<1>6. ~Alive(o) /\ a \in Addresses /\ \A p \in Objects : Alive(p) => addr[p] # a
  BY <1>2 DEF Alive, Fresh, FreeAddresses
<1>7. RegistryOwns'
  <2>1. \A k \in Kinds, x \in Addresses : registry[k][x] \in Objects \cup {NoObject}
    BY DEF TypeOK
  <2> QED
    BY <1>3, <1>4, <1>6, <2>1 DEF RegistryOwns, Alive
<1>8. AddressesDistinct'
  BY <1>3, <1>4, <1>5, <1>6 DEF AddressesDistinct, Alive
<1>9. HandlesIssued'
  BY <1>3, <1>4, <1>5 DEF HandlesIssued, Fresh, TypeOK
<1>10. IdleHoldsNothing'
  BY <1>3 DEF IdleHoldsNothing
<1>11. \A u \in Threads, x \in Scopes : \A p \in lease[u][x] : p \in Objects \ {o}
  BY <1>6 DEF LeasesPin, TypeOK
<1>12. LeasesPin'
  <2> SUFFICES ASSUME NEW u \in Threads, NEW x \in Scopes, NEW p \in lease[u][x]
               PROVE  /\ phase'[p] = "alive"
                      /\ addr'[p] = IF arg[u][kind'[p]] = NoObject THEN Null
                                    ELSE addr'[arg[u][kind'[p]]]
    BY <1>3 DEF LeasesPin, Handle, Alive
  <2>1. p \in Objects \ {o} /\ Alive(p) /\ addr[p] = Handle(u, kind[p]) /\ kind[p] \in Kinds
    BY <1>11 DEF LeasesPin, AddressesDistinct
  <2>2. arg[u][kind[p]] # NoObject => arg[u][kind[p]] \in Objects \ {o}
    BY <1>2, <2>1 DEF HandlesIssued, TypeOK
  <2> QED
    BY <1>3, <1>4, <2>1, <2>2 DEF Alive, Handle
<1>13. LocalsOwn'
  BY <1>2, <1>4, <1>5 DEF LocalsOwn, Alive, TypeOK
<1>14. CapturesPin'
  <2>1. ASSUME NEW c \in Objects, c # o
        PROVE  /\ pin'[c] # NoObject => phase'[pin'[c]] # "fresh" /\ kind'[pin'[c]] = "session"
               /\ phase'[c] = "alive" /\ kind'[c] = "capture" =>
                    /\ pin'[c] # NoObject
                    /\ phase'[pin'[c]] = "alive"
                    /\ target'[c] = addr'[pin'[c]]
    <3>1. pin[c] # NoObject => pin[c] \in Objects \ {o}
      BY <1>2 DEF CapturesPin, TypeOK
    <3> QED
      BY <1>4, <2>1, <3>1 DEF CapturesPin, Alive, Fresh
  <2>2. CASE Here(t).kind = "capture"
    <3>1. s \in lease[t]["outer"] /\ kind[s] = "session"
      BY <2>2 DEF PinOf
    <3>2. s \in Objects \ {o} /\ Alive(s) /\ addr[s] = Handle(t, "session")
      BY <1>11, <3>1 DEF LeasesPin, Scopes
    <3>3. target'[o] = Handle(t, "session")
      BY <1>2, <2>2 DEF TypeOK
    <3> QED
      BY <1>4, <1>5, <2>1, <2>2, <3>1, <3>2, <3>3, HandleAssumption DEF CapturesPin, Alive, Fresh
  <2>3. CASE Here(t).kind # "capture"
    <3>1. s = NoObject
      BY <2>3 DEF PinOf
    <3> QED
      BY <1>5, <2>1, <2>3, <3>1 DEF CapturesPin, Alive, Fresh
  <2> QED
    BY <2>2, <2>3
<1>15. BuildersPrivate'
  <2>1. o \notin RegisteredObjects
    BY <1>6 DEF RegisteredObjects, RegistryOwns
  <2>2. \A u \in Threads \ {t} : own'[u] = own[u] /\ own[u] # o
    BY <1>2, <1>6, HandleAssumption DEF LocalsOwn, TypeOK
  <2>3. own'[t] = o
    BY <1>2 DEF TypeOK
  <2>4. pc'[t] = pc[t] + 1 /\ pc[t] \in Nat /\ \A u \in Threads \ {t} : pc'[u] = pc[u]
    BY <1>3, PcMoves, HereTyped
  <2>5. \A j \in 1..(pc'[t] - 1) : Program[call[t]][j].op = "make" =>
            Program[call[t]][j].kind = Here(t).kind
    BY <1>3, <2>4, HereTyped DEF WellFormed
  <2>6. ASSUME NEW u \in Threads \ {t}, Building(u)'
        PROVE  /\ own[u] \in Objects \ {o}
               /\ own[u] \notin RegisteredObjects
               /\ \A v \in Threads \ {u} : own'[v] # own[u]
               /\ \A j \in 1..(pc[u] - 1) : Program[call[u]][j].op = "make" =>
                     kind[own[u]] = Program[call[u]][j].kind
    <3>1. Building(u)
      BY <1>3, <2>4, <2>6 DEF Building, Running
    <3> QED
      BY <2>2, <2>3, <3>1 DEF BuildersPrivate, TypeOK
  <2>7. RegisteredObjects' = RegisteredObjects
    BY <1>3 DEF RegisteredObjects
  <2> QED
    BY <1>3, <1>4, <1>5, <2>1, <2>2, <2>3, <2>4, <2>5, <2>6, <2>7, HandleAssumption
       DEF BuildersPrivate
<1>16. LeasesHeld'
  BY <1>3, <1>4, <1>11, LeasesHeldStep DEF Scopes
<1> QED
  BY <1>1, <1>7, <1>8, <1>9, <1>10, <1>12, <1>13, <1>14, <1>15, <1>16

-----------------------------------------------------------------------------
(* The theorems. *)

\* Every step, and every stutter, preserves the invariant.
LEMMA Inductive ==
    ASSUME IInv, [Next]_vars
    PROVE  IInv'
<1>1. CASE UNCHANGED vars
  BY <1>1 DEF vars, IInv, TypeOK, IdleHoldsNothing, RegistryOwns, AddressesDistinct,
              HandlesIssued, LeasesPin, LocalsOwn, CapturesPin, BuildersPrivate, LeasesHeld,
              Alive, Fresh, Handle, Building, Running, RegisteredObjects
<1>2. ASSUME NEW t \in Threads, Invoke(t) \/ Step(t)
      PROVE  IInv'
  BY <1>2, InvInvoke, InvAcquire, InvPcOnly, InvConstruct, InvRegister, InvReturnNested,
     InvRelease, InvReturn DEF Step
<1> QED
  BY <1>1, <1>2 DEF Next

\* The inductive invariant holds in every reachable state.
THEOREM Invariance == Spec => []IInv
BY InvInit, Inductive, PTL DEF Spec

\* Every variable keeps its type: in particular the owner a creation function
\* publishes is always an object, never an empty shared_ptr.
THEOREM TypeCorrect == Spec => []TypeOK
<1>1. IInv => TypeOK
  BY DEF IInv
<1> QED
  BY <1>1, Invariance, PTL

\* No C API call dereferences freed memory or memory of another kind: for any
\* number of threads, objects and addresses, and any handles they pass.
THEOREM NoDangling == Spec => []NoDanglingUse
<1>1. IInv => NoDanglingUse
  <2> SUFFICES ASSUME IInv, NEW t \in Threads, At(t, "work"), NEW u \in Here(t).uses
               PROVE  Dereferenceable(t, u)
    BY DEF NoDanglingUse
  <2> USE DEF IInv
  <2>1. PICK j \in 1..(pc[t] - 1) :
           /\ Program[call[t]][j].op = "acquire" /\ Program[call[t]][j].scope = "outer"
           /\ Program[call[t]][j].kind = IF u = "pinned" THEN "capture" ELSE u
    <3>1. /\ pc[t] \in 1..Len(Program[call[t]]) /\ WellFormed(Program[call[t]])
          /\ Program[call[t]][pc[t]].op = "work" /\ u \in Program[call[t]][pc[t]].uses
      BY HereTyped DEF At, Here
    <3> QED
      BY <3>1 DEF WellFormed
  <2>2. PICK o \in lease[t]["outer"] : kind[o] = Program[call[t]][j].kind
    BY <2>1 DEF LeasesHeld, At
  <2>3. o \in Objects /\ Alive(o) /\ addr[o] = Handle(t, kind[o])
    BY <2>2 DEF LeasesPin, TypeOK, Scopes
  <2>4. CASE u # "pinned"
    BY <2>1, <2>2, <2>3, <2>4 DEF Dereferenceable, Points
  <2>5. CASE u = "pinned"
    <3> SUFFICES ASSUME NEW c \in Objects, Alive(c), kind[c] = "capture"
                 PROVE  Points("session", target[c])
      BY <2>5 DEF Dereferenceable
    <3>1. pin[c] \in Objects /\ Alive(pin[c]) /\ kind[pin[c]] = "session"
            /\ target[c] = addr[pin[c]]
      BY DEF CapturesPin, TypeOK
    <3> QED
      BY <3>1 DEF Points
  <2> QED
    BY <2>4, <2>5
<1> QED
  BY <1>1, Invariance, PTL

\* A handle validated twice by nested calls leases one object.
THEOREM NestedLeases == Spec => []NestedLeaseAgrees
<1>1. IInv => NestedLeaseAgrees
  BY DEF IInv, NestedLeaseAgrees, LeasesPin, AddressesDistinct, TypeOK, Scopes
<1> QED
  BY <1>1, Invariance, PTL

\* createX never finds the address of a new object in its registry.
THEOREM NoCollision == Spec => []RegisterNeverCollides
<1>1. IInv => RegisterNeverCollides
  <2> SUFFICES ASSUME IInv, NEW t \in Threads, At(t, "publish")
               PROVE  registry[Here(t).kind][addr[own[t]]] = NoObject
    BY DEF RegisterNeverCollides
  <2> USE DEF IInv
  <2>1. /\ own[t] \in Objects /\ own[t] \notin RegisteredObjects /\ Alive(own[t])
        /\ Here(t).kind \in Kinds /\ addr[own[t]] \in Addresses
    BY PublishFacts, HereTyped, HandleAssumption DEF LocalsOwn, AddressesDistinct, At
  <2>2. registry[Here(t).kind][addr[own[t]]] \in Objects \cup {NoObject}
    BY <2>1 DEF TypeOK
  <2> QED
    BY <2>1, <2>2 DEF RegistryOwns, AddressesDistinct, RegisteredObjects
<1> QED
  BY <1>1, Invariance, PTL
=============================================================================
