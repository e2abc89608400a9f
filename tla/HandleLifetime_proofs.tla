---------------------- MODULE HandleLifetime_proofs ----------------------
(***************************************************************************)
(* More theorems about HandleRegistry, on top of its inductive invariant:  *)
(* nothing leaks, a release is final, the statistics tell the truth, and   *)
(* the handle layer implements ObjectLifetime.  They rest on what IInv     *)
(* does not say: that every living object has an owner, where the local    *)
(* owners of a call come from, and that a released object is in no         *)
(* registry.                                                               *)
(***************************************************************************)
EXTENDS HandleRegistry_proofs, FiniteSetTheorems

OwnerOps == {"make", "unregister"}

\* Nothing living is without an owner.
AliveIsOwned == \A o \in Objects : Alive(o) => o \in Owned

\* A call holds a local owner only past the instruction that gave it one.
LocalsExplained ==
    \A t \in Threads : own[t] # NoObject =>
        \E j \in 1..(pc[t] - 1) : call[t] # "none" /\ Program[call[t]][j].op \in OwnerOps

\* A released object is never registered again.
ReleaseIsFinal ==
    /\ \A o \in retired : ~Fresh(o) /\ o \notin RegisteredObjects
    /\ \A t \in Threads : Building(t) => own[t] \notin retired

\* Only capture sessions pin anything, and they pin sessions.
PinnersAreCaptures == \A c \in Objects : pin[c] # NoObject => kind[c] = "capture"

\* The strengthened invariant.
JInv == IInv /\ AliveIsOwned /\ LocalsExplained /\ ReleaseIsFinal /\ PinnersAreCaptures

-----------------------------------------------------------------------------
\* A call that is about to make or to release an object has no local owner yet.
LEMMA NoLocalYet ==
    ASSUME TypeOK, LocalsExplained, NEW t \in Threads, Running(t), Here(t).op \in OwnerOps
    PROVE  own[t] = NoObject
<1> SUFFICES ASSUME own[t] # NoObject PROVE FALSE
  OBVIOUS
<1>1. PICK j \in 1..(pc[t] - 1) : Program[call[t]][j].op \in OwnerOps
  BY DEF LocalsExplained
<1>2. /\ pc[t] \in 1..Len(Program[call[t]]) /\ Len(Program[call[t]]) \in Nat
      /\ WellFormed(Program[call[t]]) /\ Here(t) = Program[call[t]][pc[t]]
  BY HereTyped
<1>3. j \in 1..Len(Program[call[t]]) /\ j # pc[t]
  BY <1>2
<1> QED
  BY <1>1, <1>2, <1>3 DEF WellFormed, OwnerOps

\* A step of a running call leaves its local owners explained.
LEMMA LocalsStep ==
    ASSUME TypeOK, LocalsExplained, NEW t \in Threads, Running(t), Advance(t) \/ GiveUp(t),
           UNCHANGED call,
           \A u \in Threads : own'[u] = own[u] \/ (u = t /\ Here(t).op \in OwnerOps)
    PROVE  LocalsExplained'
<1>1. /\ pc[t] \in 1..Len(Program[call[t]]) /\ Len(Program[call[t]]) \in Nat
      /\ Here(t) = Program[call[t]][pc[t]] /\ call[t] # "none"
  BY HereTyped DEF Running
<1>2. pc'[t] \in Nat /\ pc'[t] > pc[t] /\ \A u \in Threads \ {t} : pc'[u] = pc[u]
  BY <1>1 DEF Advance, GiveUp, Goto, TypeOK
<1> SUFFICES ASSUME NEW u \in Threads, own'[u] # NoObject
             PROVE  \E j \in 1..(pc'[u] - 1) : call[u] # "none" /\ Program[call[u]][j].op \in OwnerOps
  BY DEF LocalsExplained
<1>3. CASE own'[u] = own[u]
  <2>1. PICK j \in 1..(pc[u] - 1) : call[u] # "none" /\ Program[call[u]][j].op \in OwnerOps
    BY <1>3 DEF LocalsExplained
  <2>2. j \in 1..(pc'[u] - 1)
    BY <1>1, <1>2
  <2> QED
    BY <2>1, <2>2
<1>4. CASE u = t /\ Here(t).op \in OwnerOps
  <2>1. pc[t] \in 1..(pc'[t] - 1)
    BY <1>1, <1>2
  <2> QED
    BY <1>1, <1>4, <2>1
<1> QED
  BY <1>3, <1>4

\* Every step leaves the local owners explained.
LEMMA LocalsNext ==
    ASSUME TypeOK, BuildersPrivate, LocalsExplained, NEW t \in Threads, Invoke(t) \/ Step(t)
    PROVE  LocalsExplained'
<1>1. CASE Invoke(t)
  <2>1. UNCHANGED own /\ own[t] = NoObject
    BY <1>1 DEF Invoke, LocalsExplained
  <2>2. \A u \in Threads \ {t} : pc'[u] = pc[u] /\ call'[u] = call[u]
    BY <1>1 DEF Invoke, TypeOK
  <2> QED
    BY <2>1, <2>2 DEF LocalsExplained
<1>2. CASE Return(t)
  <2>1. \A u \in Threads \ {t} : pc'[u] = pc[u] /\ call'[u] = call[u] /\ own'[u] = own[u]
    BY <1>2 DEF Return, DropLocals, TypeOK
  <2>2. own'[t] = NoObject
    BY <1>2 DEF Return, DropLocals, TypeOK
  <2> QED
    BY <2>1, <2>2 DEF LocalsExplained
<1>3. CASE AcquireLease(t) \/ DoWork(t) \/ ConstructFails(t) \/ Register(t) \/ ReturnNested(t)
  <2>1. Running(t) /\ (Advance(t) \/ GiveUp(t)) /\ UNCHANGED <<call, own>>
    BY <1>3 DEF AcquireLease, DoWork, ConstructFails, Register, ReturnNested, At
  <2> QED
    BY <2>1, LocalsStep
<1>4. CASE Construct(t) \/ Release(t)
  <2>1. /\ Running(t) /\ (Advance(t) \/ GiveUp(t)) /\ UNCHANGED call /\ Here(t).op \in OwnerOps
    BY <1>4 DEF Construct, Release, At, OwnerOps
  <2>2. \A u \in Threads \ {t} : own'[u] = own[u]
    BY <1>4 DEF Construct, Release, TypeOK
  <2> QED
    BY <2>1, <2>2, LocalsStep
<1> QED
  BY <1>1, <1>2, <1>3, <1>4 DEF Step

-----------------------------------------------------------------------------
(* What the steps do, without their IFs. *)

\* An acquire leases a registered object, or nothing.
LEMMA AcquireFacts ==
    ASSUME TypeOK, NEW t \in Threads, AcquireLease(t)
    PROVE  \/ UNCHANGED lease
           \/ \E k \in Kinds, s \in Scopes, h \in Addresses :
                /\ registry[k][h] \in Objects
                /\ lease' = [lease EXCEPT ![t][s] = @ \cup {registry[k][h]}]
<1> DEFINE k == Here(t).kind
           h == Handle(t, k)
<1>1. k \in Kinds /\ Here(t).scope \in Scopes /\ h \in Addresses \cup {Null}
  BY HereTyped, HandleTyped DEF AcquireLease, At
<1>2. CASE Registered(k, h)
  <2>1. h \in Addresses /\ registry[k][h] \in Objects
    BY <1>1, <1>2 DEF Registered, TypeOK
  <2>2. lease' = [lease EXCEPT ![t][Here(t).scope] = @ \cup {registry[k][h]}]
    BY <1>2 DEF AcquireLease
  <2> HIDE DEF k, h
  <2> QED
    BY <1>1, <2>1, <2>2
<1>3. CASE ~Registered(k, h)
  BY <1>3 DEF AcquireLease
<1> QED
  BY <1>2, <1>3

\* A registration always succeeds, at a free entry.
LEMMA RegisterFacts ==
    ASSUME IInv, NEW t \in Threads, Register(t)
    PROVE  \E k \in Kinds, a \in Addresses :
             /\ own[t] \in Objects /\ kind[own[t]] = k /\ Building(t)
             /\ own[t] \notin RegisteredObjects
             /\ registry[k][a] = NoObject
             /\ registry' = [registry EXCEPT ![k][a] = own[t]]
             /\ created' = [created EXCEPT ![k] = @ + 1]
             /\ published' = published \cup {own[t]}
             /\ Advance(t)
<1> USE DEF IInv
<1> DEFINE k == Here(t).kind
           a == addr[own[t]]
<1>1. /\ own[t] \in Objects /\ own[t] \notin RegisteredObjects /\ Alive(own[t]) /\ kind[own[t]] = k
      /\ k \in Kinds /\ a \in Addresses /\ Building(t)
  BY PublishFacts, HereTyped, HandleAssumption DEF LocalsOwn, AddressesDistinct, At, Register
<1>2. registry[k][a] = NoObject
  <2>1. registry[k][a] \in Objects \cup {NoObject}
    BY <1>1 DEF TypeOK
  <2> HIDE DEF k
  <2> QED
    BY <1>1, <2>1 DEF RegistryOwns, AddressesDistinct, RegisteredObjects
<1>3. ~Registered(k, a)
  BY <1>2 DEF Registered
<1> QED
  BY <1>1, <1>2, <1>3 DEF Register

-----------------------------------------------------------------------------
(* Owners. *)

\* What the owners of an object are.
LEMMA OwnedFacts ==
    /\ \A k \in Kinds, a \in Addresses : registry[k][a] \in DirectlyOwned
    /\ \A t \in Threads : own[t] \in DirectlyOwned
    /\ \A t \in Threads, s \in Scopes : lease[t][s] \subseteq DirectlyOwned
    /\ DirectlyOwned \subseteq Owned
    /\ \A c \in DirectlyOwned \cap Objects : pin[c] \in Owned
BY DEF DirectlyOwned, Owned

\* Objects keep their owners when leases, locals and entries are only added.
LEMMA OwnedGrows ==
    ASSUME \A k \in Kinds, a \in Addresses : registry[k][a] \in {NoObject} \cup DirectlyOwned',
           \A t \in Threads : own[t] \in {NoObject} \cup DirectlyOwned',
           \A t \in Threads, s \in Scopes : lease[t][s] \subseteq DirectlyOwned',
           \A c \in Objects : Alive(c) => pin'[c] = pin[c],
           RegistryOwns, LeasesPin, LocalsOwn, TypeOK
    PROVE  Owned \cap Objects \subseteq Owned'
<1>1. \A o \in DirectlyOwned \cap Objects : o \in DirectlyOwned' /\ Alive(o)
  BY HandleAssumption DEF DirectlyOwned, RegistryOwns, LeasesPin, LocalsOwn
<1> QED
  BY <1>1 DEF Owned

\* Every step leaves every living object with an owner.
LEMMA AliveNext ==
    ASSUME IInv, AliveIsOwned, LocalsExplained, NEW t \in Threads, Invoke(t) \/ Step(t)
    PROVE  AliveIsOwned'
<1> USE DEF IInv
<1>1. CASE Reap
  <2>1. \A o \in Objects : Alive(o)' => o \in Owned'
    BY <1>1, ReapFacts
  <2> QED
    BY <2>1 DEF AliveIsOwned
<1>2. CASE Invoke(t) \/ DoWork(t) \/ ConstructFails(t)
  BY <1>2 DEF Invoke, DoWork, ConstructFails, heap, manager, AliveIsOwned, Alive, Owned, DirectlyOwned
<1>3. CASE AcquireLease(t)
  <2>1. UNCHANGED <<phase, pin, registry, own>>
    BY <1>3 DEF AcquireLease, heap, manager
  <2>2. \A u \in Threads, s \in Scopes : lease[u][s] \subseteq lease'[u][s]
    <3>1. CASE UNCHANGED lease
      BY <3>1
    <3>2. ASSUME NEW k \in Kinds, NEW x \in Scopes, NEW h \in Addresses,
                 lease' = [lease EXCEPT ![t][x] = @ \cup {registry[k][h]}]
          PROVE  \A u \in Threads, s \in Scopes : lease[u][s] \subseteq lease'[u][s]
      BY <3>2 DEF TypeOK
    <3> QED
      BY <1>3, <3>1, <3>2, AcquireFacts
  <2>3. Owned \cap Objects \subseteq Owned'
    BY <2>1, <2>2, OwnedGrows DEF DirectlyOwned
  <2> QED
    BY <2>1, <2>3 DEF AliveIsOwned, Alive
<1>4. CASE Construct(t)
  <2>1. PICK o \in Objects, s \in Objects \cup {NoObject} :
          /\ Fresh(o)
          /\ phase' = [phase EXCEPT ![o] = "alive"]
          /\ pin' = [pin EXCEPT ![o] = s]
          /\ own' = [own EXCEPT ![t] = o]
    BY <1>4, ConstructFacts
  <2>2. own[t] = NoObject
    BY <1>4, NoLocalYet DEF Construct, At, OwnerOps
  <2>3. UNCHANGED <<registry, lease>>
    BY <1>4 DEF Construct, manager
  <2>4. \A c \in Objects : Alive(c) => pin'[c] = pin[c]
    BY <2>1 DEF TypeOK, Alive, Fresh
  <2>5. \A u \in Threads : own[u] \in {NoObject} \cup DirectlyOwned'
    BY <2>1, <2>2 DEF TypeOK, DirectlyOwned
  <2>6. Owned \cap Objects \subseteq Owned'
    BY <2>3, <2>4, <2>5, OwnedGrows DEF DirectlyOwned
  <2>7. o \in Owned'
    BY <2>1 DEF TypeOK, DirectlyOwned, Owned
  <2>8. \A p \in Objects \ {o} : Alive(p)' => Alive(p)
    BY <2>1 DEF TypeOK, Alive
  <2> QED
    BY <2>6, <2>7, <2>8 DEF AliveIsOwned
<1>5. CASE Register(t)
  <2>1. UNCHANGED <<phase, pin, lease, own>>
    BY <1>5 DEF Register, heap
  <2>2. \A k \in Kinds, a \in Addresses : registry[k][a] # NoObject => registry'[k][a] = registry[k][a]
    <3>1. PICK k \in Kinds, a \in Addresses :
             /\ registry[k][a] = NoObject
             /\ registry' = [registry EXCEPT ![k][a] = own[t]]
      BY <1>5, RegisterFacts
    <3> QED
      BY <3>1 DEF TypeOK
  <2>3. Owned \cap Objects \subseteq Owned'
    BY <2>1, <2>2, OwnedGrows DEF DirectlyOwned
  <2> QED
    BY <2>1, <2>3 DEF AliveIsOwned, Alive
<1> QED
  BY <1>1, <1>2, <1>3, <1>4, <1>5 DEF Step, ReturnNested, Release, Return

-----------------------------------------------------------------------------
(* Releases. *)

\* What releaseX does when it finds the handle.
LEMMA ReleaseFacts ==
    ASSUME IInv, LocalsExplained, NEW t \in Threads, Release(t),
           Registered(Here(t).kind, Handle(t, Here(t).kind))
    PROVE  \E k \in Kinds, h \in Addresses :
             /\ registry[k][h] \in Objects /\ k = Here(t).kind
             /\ registry' = [registry EXCEPT ![k][h] = NoObject]
             /\ own[t] = NoObject /\ own' = [own EXCEPT ![t] = registry[k][h]]
             /\ released' = [released EXCEPT ![k] = @ + 1]
             /\ retired' = retired \cup {registry[k][h]}
             /\ RegisteredObjects' = RegisteredObjects \ {registry[k][h]}
<1> USE DEF IInv
<1> DEFINE k == Here(t).kind
           h == Handle(t, k)
<1>1. Running(t) /\ k \in Kinds /\ Here(t).op = "unregister"
  BY HereTyped DEF Release, At
<1>2. h \in Addresses /\ registry[k][h] \in Objects /\ registry[k][h] # NoObject
  BY <1>1, HandleTyped DEF Registered, TypeOK
<1>3. own[t] = NoObject
  BY <1>1, NoLocalYet DEF OwnerOps
<1>4. /\ registry' = [registry EXCEPT ![k][h] = NoObject]
      /\ own' = [own EXCEPT ![t] = registry[k][h]]
      /\ released' = [released EXCEPT ![k] = @ + 1]
      /\ retired' = retired \cup {registry[k][h]}
  BY DEF Release, EraseEntry, CountRelease
<1> HIDE DEF k, h
<1>5. \A x \in Kinds, a \in Addresses :
         registry'[x][a] = IF x = k /\ a = h THEN NoObject ELSE registry[x][a]
  BY <1>1, <1>2, <1>4 DEF TypeOK
<1>6. \A x \in Kinds, a \in Addresses : registry[x][a] = registry[k][h] => x = k /\ a = h
  BY <1>1, <1>2 DEF RegistryOwns
<1>7. RegisteredObjects' = RegisteredObjects \ {registry[k][h]}
  BY <1>1, <1>2, <1>5, <1>6 DEF RegisteredObjects
<1> QED
  BY <1>1, <1>2, <1>3, <1>4, <1>7 DEF k, h

\* A released object stays out of the registry: entries are only made of what a
\* call is building, which no client could have released.
LEMMA ReleaseNext ==
    ASSUME IInv, LocalsExplained, ReleaseIsFinal, NEW t \in Threads, Invoke(t) \/ Step(t)
    PROVE  ReleaseIsFinal'
<1> USE DEF IInv
<1>1. \A o \in Objects : Fresh(o)' => Fresh(o)
  <2>1. CASE Reap
    BY <2>1, ReapFacts
  <2>2. CASE UNCHANGED phase
    BY <2>2 DEF Fresh
  <2>3. CASE Construct(t)
    BY <2>3, ConstructFacts DEF Fresh, TypeOK
  <2> QED
    BY <2>1, <2>2, <2>3 DEF Step, Invoke, AcquireLease, DoWork, ConstructFails, Register, ReturnNested,
                            Release, Return, heap
<1>2. CASE Invoke(t) \/ Return(t)
  <2>1. UNCHANGED <<registry, retired>>
    BY <1>2 DEF Invoke, Return, manager, history
  <2>2. ~Building(t)'
    BY <1>2 DEF Invoke, Return, Building, TypeOK
  <2>3. \A u \in Threads \ {t} : own'[u] = own[u] /\ (Building(u)' => Building(u))
    BY <1>2 DEF Invoke, Return, DropLocals, Building, Running, TypeOK
  <2>4. \A o \in retired' : ~Fresh(o)' /\ o \notin RegisteredObjects'
    BY <1>1, <2>1 DEF ReleaseIsFinal, RegisteredObjects, TypeOK
  <2> QED
    BY <2>1, <2>2, <2>3, <2>4 DEF ReleaseIsFinal
<1>3. CASE AcquireLease(t) \/ DoWork(t) \/ ReturnNested(t)
  <2>1. /\ Running(t) /\ (Advance(t) \/ GiveUp(t)) /\ UNCHANGED <<call, own, registry, retired>>
        /\ Here(t).op # "make"
    BY <1>3 DEF AcquireLease, DoWork, ReturnNested, At, manager, history
  <2>2. \A u \in Threads : Building(u)' => Building(u)
    BY <2>1, BuildingBack
  <2> QED
    BY <1>1, <2>1, <2>2 DEF ReleaseIsFinal, RegisteredObjects, TypeOK
<1>4. CASE ConstructFails(t)
  <2>1. /\ Running(t) /\ GiveUp(t) /\ UNCHANGED <<call, own, registry, retired>>
    BY <1>4 DEF ConstructFails, At, manager, history
  <2>2. ~Running(t)'
    BY <2>1, HereTyped DEF GiveUp, Goto, Running, TypeOK, WellFormed
  <2>3. \A u \in Threads : Building(u)' => Building(u)
    BY <2>1, <2>2, PcMoves DEF Building, Running
  <2> QED
    BY <1>1, <2>1, <2>3 DEF ReleaseIsFinal, RegisteredObjects, TypeOK
<1>5. CASE Construct(t)
  <2>1. PICK o \in Objects : Fresh(o) /\ own' = [own EXCEPT ![t] = o]
    BY <1>5, ConstructFacts
  <2>2. /\ Running(t) /\ Advance(t) /\ UNCHANGED <<call, registry, retired>>
    BY <1>5 DEF Construct, At, manager, history
  <2>3. o \notin retired
    BY <2>1 DEF ReleaseIsFinal
  <2>4. \A u \in Threads \ {t} : own'[u] = own[u] /\ (Building(u)' => Building(u))
    BY <2>1, <2>2, PcMoves DEF Building, Running, TypeOK
  <2> QED
    BY <1>1, <2>1, <2>2, <2>3, <2>4 DEF ReleaseIsFinal, RegisteredObjects, TypeOK
<1>6. CASE Register(t)
  <2>1. /\ Running(t) /\ (Advance(t) \/ GiveUp(t)) /\ UNCHANGED <<call, own, retired>>
        /\ Here(t).op # "make"
    BY <1>6 DEF Register, At
  <2>2. \A u \in Threads : Building(u)' => Building(u)
    BY <2>1, BuildingBack
  <2>3. PICK k \in Kinds, a \in Addresses :
          /\ Building(t)
          /\ registry' = [registry EXCEPT ![k][a] = own[t]]
    BY <1>6, RegisterFacts
  <2>4. RegisteredObjects' \subseteq RegisteredObjects \cup {own[t]}
    BY <2>3 DEF RegisteredObjects, TypeOK
  <2> QED
    BY <1>1, <2>1, <2>2, <2>3, <2>4 DEF ReleaseIsFinal, TypeOK
<1>7. CASE Release(t)
  <2>1. /\ Running(t) /\ (Advance(t) \/ GiveUp(t)) /\ UNCHANGED call
        /\ Here(t).op = "unregister"
    BY <1>7 DEF Release, At
  <2>2. \A u \in Threads : Building(u)' => Building(u)
    BY <2>1, BuildingBack
  <2>3. ~Building(t)
    BY <2>1, HereTyped DEF Building, WellFormed, Here
  <2>4. CASE Registered(Here(t).kind, Handle(t, Here(t).kind))
    <3>1. PICK o \in RegisteredObjects :
            /\ o \in Objects
            /\ own' = [own EXCEPT ![t] = o]
            /\ retired' = retired \cup {o}
            /\ RegisteredObjects' = RegisteredObjects \ {o}
      <4>1. PICK k \in Kinds, h \in Addresses :
               /\ registry[k][h] \in Objects
               /\ own' = [own EXCEPT ![t] = registry[k][h]]
               /\ retired' = retired \cup {registry[k][h]}
               /\ RegisteredObjects' = RegisteredObjects \ {registry[k][h]}
        BY <1>7, <2>4, ReleaseFacts
      <4>2. registry[k][h] \in RegisteredObjects
        BY <4>1, HandleAssumption DEF RegisteredObjects
      <4> QED
        BY <4>1, <4>2
    <3>2. ~Fresh(o)
      BY <3>1 DEF RegisteredObjects, RegistryOwns, Alive, Fresh
    <3>3. \A u \in Threads \ {t} : own'[u] = own[u]
      BY <3>1 DEF TypeOK
    <3>4. \A p \in retired' : ~Fresh(p)' /\ p \notin RegisteredObjects'
      BY <1>1, <3>1, <3>2 DEF ReleaseIsFinal, TypeOK
    <3>5. \A u \in Threads : Building(u)' => own'[u] \notin retired'
      BY <2>2, <2>3, <3>1, <3>3 DEF ReleaseIsFinal, BuildersPrivate
    <3> QED
      BY <3>4, <3>5 DEF ReleaseIsFinal
  <2>5. CASE ~Registered(Here(t).kind, Handle(t, Here(t).kind))
    <3>1. UNCHANGED <<own, registry, retired>>
      BY <1>7, <2>5 DEF Release
    <3> QED
      BY <1>1, <2>2, <3>1 DEF ReleaseIsFinal, RegisteredObjects, TypeOK
  <2> QED
    BY <2>4, <2>5
<1> QED
  BY <1>2, <1>3, <1>4, <1>5, <1>6, <1>7 DEF Step

\* Pins are made by make_shared alone.
LEMMA PinnersNext ==
    ASSUME IInv, PinnersAreCaptures, NEW t \in Threads, Invoke(t) \/ Step(t)
    PROVE  PinnersAreCaptures'
<1>1. CASE Construct(t)
  <2>1. PICK o \in Objects, s \in PinOf(t, Here(t).kind) :
          /\ kind' = [kind EXCEPT ![o] = Here(t).kind]
          /\ pin' = [pin EXCEPT ![o] = s]
    BY <1>1, ConstructFacts DEF IInv
  <2>2. s # NoObject => Here(t).kind = "capture"
    BY DEF PinOf
  <2> QED
    BY <2>1, <2>2 DEF PinnersAreCaptures, IInv, TypeOK
<1>2. CASE UNCHANGED <<kind, pin>>
  BY <1>2 DEF PinnersAreCaptures
<1> QED
  BY <1>1, <1>2 DEF Step, Invoke, AcquireLease, DoWork, ConstructFails, Register, ReturnNested,
                    Release, Return, heap

\* The strengthened invariant holds initially,
LEMMA JInit == Init => JInv
<1> SUFFICES ASSUME Init PROVE JInv
  OBVIOUS
<1>1. AliveIsOwned /\ LocalsExplained /\ ReleaseIsFinal /\ PinnersAreCaptures
  BY DEF Init, AliveIsOwned, Alive, LocalsExplained, ReleaseIsFinal, Building, Running, PinnersAreCaptures
<1> QED
  BY <1>1, InvInit DEF JInv

\* and every step preserves it.
LEMMA JNext ==
    ASSUME JInv, [Next]_vars
    PROVE  JInv'
<1>1. IInv'
  BY Inductive DEF JInv
<1>2. CASE UNCHANGED vars
  BY <1>1, <1>2 DEF vars, JInv, AliveIsOwned, Alive, Owned, DirectlyOwned, LocalsExplained,
                    ReleaseIsFinal, Fresh, RegisteredObjects, Building, Running, PinnersAreCaptures
<1>3. ASSUME NEW t \in Threads, Invoke(t) \/ Step(t)
      PROVE  JInv'
  BY <1>1, <1>3, AliveNext, LocalsNext, ReleaseNext, PinnersNext DEF JInv, IInv
<1> QED
  BY <1>2, <1>3 DEF Next

\* The strengthened invariant holds in every reachable state.
THEOREM StrongInvariance == Spec => []JInv
BY JInit, JNext, PTL DEF Spec

-----------------------------------------------------------------------------
(* The theorems. *)

\* When no call is executing, every living object is registered, or pinned by a
\* registered capture session: no sequence of calls leaks an object.
THEOREM NothingLeaks == Spec => []NoLeakWhenIdle
<1>1. JInv => NoLeakWhenIdle
  <2> SUFFICES ASSUME JInv, \A t \in Threads : call[t] = "none", NEW o \in Objects, Alive(o)
               PROVE  o \in RegisteredObjects \/ \E c \in RegisteredObjects : pin[c] = o
    BY DEF NoLeakWhenIdle
  <2>1. \A t \in Threads : own[t] = NoObject /\ \A s \in Scopes : lease[t][s] = {}
    BY DEF JInv, IInv, LocalsExplained, IdleHoldsNothing
  <2>2. DirectlyOwned \cap Objects \subseteq RegisteredObjects
    BY <2>1, HandleAssumption DEF DirectlyOwned, RegisteredObjects
  <2>3. o \in Owned
    BY DEF JInv, AliveIsOwned
  <2> QED
    BY <2>2, <2>3 DEF Owned
<1> QED
  BY <1>1, StrongInvariance, PTL

\* No call obtains a lease on an object after its release, even when its address
\* has been registered again.
THEOREM NoLateLease == Spec => NoLeaseAfterRelease
<1> DEFINE A == \A t \in Threads, s \in Scopes :
                  \A o \in lease'[t][s] \ lease[t][s] : o \notin retired
<1>1. JInv /\ [Next]_vars => [A]_vars
  <2> SUFFICES ASSUME JInv, NEW t \in Threads, Invoke(t) \/ Step(t),
                      NEW u \in Threads, NEW s \in Scopes, NEW o \in lease'[u][s] \ lease[u][s]
               PROVE  o \notin retired
    BY DEF Next
  <2>1. AcquireLease(t)
    <3>1. \A v \in Threads, x \in Scopes :
             Invoke(t) \/ DoWork(t) \/ Construct(t) \/ ConstructFails(t) \/ Register(t)
               \/ ReturnNested(t) \/ Release(t) \/ Return(t) => lease'[v][x] \subseteq lease[v][x]
      BY DEF Invoke, DoWork, Construct, ConstructFails, Register, ReturnNested, Release, Return,
             JInv, IInv, TypeOK, NoLeases, Scopes
    <3> QED
      BY <3>1 DEF Step
  <2>2. o \in RegisteredObjects
    <3>1. PICK k \in Kinds, x \in Scopes, h \in Addresses :
             /\ registry[k][h] \in Objects
             /\ lease' = [lease EXCEPT ![t][x] = @ \cup {registry[k][h]}]
      BY <2>1, AcquireFacts DEF JInv, IInv
    <3>2. o = registry[k][h]
      BY <3>1 DEF JInv, IInv, TypeOK
    <3> QED
      BY <3>1, <3>2, HandleAssumption DEF RegisteredObjects
  <2> QED
    BY <2>2 DEF JInv, ReleaseIsFinal
<1> QED
  BY <1>1, StrongInvariance, PTL DEF Spec, NoLeaseAfterRelease

-----------------------------------------------------------------------------
(* The statistics. *)

Entries(k) == {a \in Addresses : registry[k][a] # NoObject}
RetiredOf(k) == {o \in retired : kind[o] = k}

\* The counters agree with the entries and the releases, which are finitely many.
Counted ==
    \A k \in Kinds :
        /\ IsFiniteSet(Entries(k)) /\ IsFiniteSet(RetiredOf(k))
        /\ created[k] - released[k] = Cardinality(Entries(k))
        /\ released[k] = Cardinality(RetiredOf(k))

\* Every step counts what it does.
LEMMA CountedNext ==
    ASSUME JInv, Counted, NEW t \in Threads, Invoke(t) \/ Step(t)
    PROVE  Counted'
<1> USE DEF JInv, IInv
<1>0. \A k \in Kinds : created[k] \in Nat /\ released[k] \in Nat
  BY DEF TypeOK
<1>1. CASE Construct(t)
  <2>1. PICK o \in Objects : Fresh(o) /\ kind' = [kind EXCEPT ![o] = Here(t).kind]
    BY <1>1, ConstructFacts
  <2>2. UNCHANGED <<registry, created, released, retired>>
    BY <1>1 DEF Construct, manager, history
  <2>3. \A p \in retired : p \in Objects /\ kind'[p] = kind[p]
    BY <2>1 DEF ReleaseIsFinal, TypeOK
  <2>4. \A k \in Kinds : Entries(k)' = Entries(k) /\ RetiredOf(k)' = RetiredOf(k)
    BY <2>2, <2>3 DEF Entries, RetiredOf
  <2> QED
    BY <2>2, <2>4 DEF Counted
<1>2. CASE Register(t)
  <2>1. PICK k \in Kinds, a \in Addresses :
          /\ own[t] \in Objects
          /\ registry[k][a] = NoObject
          /\ registry' = [registry EXCEPT ![k][a] = own[t]]
          /\ created' = [created EXCEPT ![k] = @ + 1]
    BY <1>2, RegisterFacts
  <2>2. UNCHANGED <<kind, released, retired>>
    BY <1>2 DEF Register, heap
  <2>3. a \notin Entries(k) /\ Entries(k)' = Entries(k) \cup {a}
    BY <2>1, HandleAssumption DEF Entries, TypeOK
  <2>4. \A j \in Kinds \ {k} : Entries(j)' = Entries(j) /\ created'[j] = created[j]
    BY <2>1 DEF Entries, TypeOK
  <2>5. \A j \in Kinds : RetiredOf(j)' = RetiredOf(j)
    BY <2>2 DEF RetiredOf
  <2>6. IsFiniteSet(Entries(k)') /\ Cardinality(Entries(k)') = Cardinality(Entries(k)) + 1
    <3>1. IsFiniteSet(Entries(k))
      BY DEF Counted
    <3> HIDE DEF Entries
    <3> QED
      BY <2>3, <3>1, FS_AddElement
  <2>7. created'[k] = created[k] + 1
    BY <2>1 DEF TypeOK
  <2>8. created'[k] - released[k] = Cardinality(Entries(k)')
    BY <1>0, <2>6, <2>7 DEF Counted
  <2> QED
    BY <2>2, <2>4, <2>5, <2>6, <2>8 DEF Counted
<1>3. CASE Release(t)
  <2>0. UNCHANGED <<kind, created>>
    BY <1>3 DEF Release
  <2>1. CASE Registered(Here(t).kind, Handle(t, Here(t).kind))
    <3>1. PICK k \in Kinds, h \in Addresses :
            /\ registry[k][h] \in Objects
            /\ registry' = [registry EXCEPT ![k][h] = NoObject]
            /\ released' = [released EXCEPT ![k] = @ + 1]
            /\ retired' = retired \cup {registry[k][h]}
      BY <1>3, <2>1, ReleaseFacts
    <3> DEFINE o == registry[k][h]
    <3>2. o \notin retired /\ kind[o] = k
      BY <3>1, HandleAssumption DEF ReleaseIsFinal, RegistryOwns, RegisteredObjects
    <3>3. h \in Entries(k) /\ Entries(k)' = Entries(k) \ {h}
      BY <3>1, HandleAssumption DEF Entries, TypeOK
    <3>4. o \notin RetiredOf(k) /\ RetiredOf(k)' = RetiredOf(k) \cup {o}
      BY <2>0, <3>1, <3>2 DEF RetiredOf
    <3>5. \A j \in Kinds \ {k} : /\ Entries(j)' = Entries(j) /\ RetiredOf(j)' = RetiredOf(j)
                                 /\ released'[j] = released[j]
      BY <2>0, <3>1, <3>2 DEF Entries, RetiredOf, TypeOK
    <3> HIDE DEF o
    <3>6. /\ IsFiniteSet(Entries(k)) /\ IsFiniteSet(RetiredOf(k))
          /\ created[k] - released[k] = Cardinality(Entries(k))
          /\ released[k] = Cardinality(RetiredOf(k))
      BY DEF Counted
    <3>7. /\ IsFiniteSet(Entries(k)') /\ Cardinality(Entries(k)') = Cardinality(Entries(k)) - 1
      <4> HIDE DEF Entries
      <4> QED
        BY <3>3, <3>6, FS_RemoveElement
    <3>8. /\ IsFiniteSet(RetiredOf(k)') /\ Cardinality(RetiredOf(k)') = Cardinality(RetiredOf(k)) + 1
      <4> HIDE DEF RetiredOf
      <4> QED
        BY <3>4, <3>6, FS_AddElement
    <3>9. released'[k] = released[k] + 1
      BY <3>1 DEF TypeOK
    <3>10. /\ created'[k] - released'[k] = Cardinality(Entries(k)')
           /\ released'[k] = Cardinality(RetiredOf(k)')
      BY <1>0, <2>0, <3>6, <3>7, <3>8, <3>9
    <3> QED
      BY <2>0, <3>5, <3>7, <3>8, <3>10 DEF Counted
  <2>2. CASE ~Registered(Here(t).kind, Handle(t, Here(t).kind))
    BY <1>3, <2>0, <2>2 DEF Release, Counted, Entries, RetiredOf
  <2> QED
    BY <2>1, <2>2
<1>4. CASE UNCHANGED <<kind, registry, created, released, retired>>
  BY <1>4 DEF Counted, Entries, RetiredOf
<1> QED
  BY <1>1, <1>2, <1>3, <1>4 DEF Step, Invoke, AcquireLease, DoWork, ConstructFails, ReturnNested,
                                Return, heap, manager, history

\* HFDeBugShowResourceStatistics tells the truth: created minus released is the
\* number of handles registered, and each release counts one object, once.
THEOREM StatisticsTrue == Spec => []CountersAgree
<1>1. Init => Counted
  <2> SUFFICES ASSUME Init, NEW k \in Kinds
               PROVE  /\ IsFiniteSet(Entries(k)) /\ IsFiniteSet(RetiredOf(k))
                      /\ created[k] - released[k] = Cardinality(Entries(k))
                      /\ released[k] = Cardinality(RetiredOf(k))
    BY DEF Counted
  <2>1. Entries(k) = {} /\ RetiredOf(k) = {}
    BY DEF Init, Entries, RetiredOf
  <2> QED
    BY <2>1, FS_EmptySet DEF Init
<1>2. JInv /\ Counted /\ [Next]_vars => Counted'
  <2> SUFFICES ASSUME JInv, Counted, [Next]_vars PROVE Counted'
    OBVIOUS
  <2>1. CASE UNCHANGED vars
    BY <2>1 DEF vars, Counted, Entries, RetiredOf
  <2> QED
    BY <2>1, CountedNext DEF Next
<1>3. Counted => CountersAgree
  BY DEF Counted, CountersAgree, Entries, RetiredOf
<1> QED
  BY <1>1, <1>2, <1>3, StrongInvariance, PTL DEF Spec

-----------------------------------------------------------------------------
(* The refinement of ObjectLifetime. *)

Using(o) == {t \in Threads : own[t] = o \/ o \in Leased(t)}
StageBar == [o \in Objects |-> Stage(o)]
UsersBar == [o \in Objects |-> Using(o)]

\* What the stages say of an object.
LEMMA StageFacts ==
    ASSUME NEW o \in Objects, phase[o] \in {"fresh", "alive", "dead"},
           o \in RegisteredObjects => Alive(o)
    PROVE  /\ Stage(o) \in Lifetime!Stages
           /\ Stage(o) = "unborn" <=> Fresh(o)
           /\ Stage(o) = "destroyed" <=> phase[o] = "dead"
           /\ Stage(o) = "public" <=> o \in RegisteredObjects
           /\ Stage(o) = "retired" <=> Alive(o) /\ o \notin RegisteredObjects /\ o \in retired
           /\ Stage(o) = "private" <=> Alive(o) /\ o \notin RegisteredObjects /\ o \notin retired
BY DEF Stage, Lifetime!Stages, Alive, Fresh

\* The same, of every object in a reachable state.
LEMMA Staged ==
    ASSUME JInv, NEW o \in Objects
    PROVE  /\ Stage(o) \in Lifetime!Stages
           /\ Stage(o) = "unborn" <=> Fresh(o)
           /\ Stage(o) = "destroyed" <=> phase[o] = "dead"
           /\ Stage(o) = "public" <=> o \in RegisteredObjects
           /\ Stage(o) = "retired" <=> Alive(o) /\ o \notin RegisteredObjects /\ o \in retired
           /\ Stage(o) = "private" <=> Alive(o) /\ o \notin RegisteredObjects /\ o \notin retired
<1>1. phase[o] \in {"fresh", "alive", "dead"} /\ (o \in RegisteredObjects => Alive(o))
  BY DEF JInv, IInv, TypeOK, RegistryOwns, RegisteredObjects
<1> QED
  BY <1>1, StageFacts

\* An object keeps its stage as long as its phase, entry and release do.
LEMMA SameStage ==
    ASSUME NEW o \in Objects, phase'[o] = phase[o],
           o \in RegisteredObjects' <=> o \in RegisteredObjects,
           o \in retired' <=> o \in retired
    PROVE  Stage(o)' = Stage(o)
BY DEF Stage

\* make_shared builds; the builder may build on an object it uses.
LEMMA ConstructBuilds ==
    ASSUME JInv, JInv', NEW t \in Threads, Construct(t)
    PROVE  \E o \in Objects : Lifetime!Build(t, o)
<1> USE DEF IInv
<1>1. PICK o \in Objects, s \in PinOf(t, Here(t).kind) :
        /\ Fresh(o)
        /\ phase' = [phase EXCEPT ![o] = "alive"]
        /\ pin' = [pin EXCEPT ![o] = s]
        /\ own' = [own EXCEPT ![t] = o]
  BY ConstructFacts DEF JInv
<1>2. UNCHANGED <<registry, retired, lease>> /\ own[t] = NoObject
  BY NoLocalYet DEF Construct, manager, history, At, OwnerOps, JInv
<1>3. s = NoObject \/ (s \in lease[t]["outer"] /\ s \in Objects)
  BY DEF PinOf, JInv, TypeOK, Scopes
<1>4. Stage(o) = "unborn"
  BY <1>1, Staged
<1>5. Stage(o)' = "private"
  <2>1. Alive(o)' /\ o \notin RegisteredObjects /\ o \notin retired
    BY <1>1 DEF JInv, TypeOK, RegistryOwns, RegisteredObjects, ReleaseIsFinal, Alive, Fresh
  <2> QED
    BY <1>2, <2>1 DEF Stage, RegisteredObjects, Alive
<1>6. \A p \in Objects \ {o} : Stage(p)' = Stage(p)
  BY <1>1, <1>2, SameStage DEF RegisteredObjects, JInv, TypeOK
<1>7. StageBar' = [StageBar EXCEPT ![o] = "private"]
  BY <1>5, <1>6 DEF StageBar
<1>8. \A u \in Threads : own[u] # o /\ o \notin Leased(u)
  BY <1>1, HandleAssumption DEF JInv, LocalsOwn, LeasesPin, Leased, Alive, Fresh, Scopes
<1>9. Using(o)' = {t}
  BY <1>1, <1>2, <1>8 DEF Using, Leased, JInv, TypeOK
<1>10. \A p \in Objects \ {o} : Using(p)' = Using(p)
  BY <1>1, <1>2, HandleAssumption DEF Using, Leased, JInv, TypeOK
<1>11. UsersBar' = [UsersBar EXCEPT ![o] = {t}]
  BY <1>9, <1>10 DEF UsersBar
<1>12. s \in {NoObject} \cup {x \in Objects : t \in UsersBar[x]}
  BY <1>3 DEF UsersBar, Using, Leased
<1>13. StageBar[o] = "unborn"
  BY <1>4 DEF StageBar
<1> QED
  BY <1>1, <1>7, <1>11, <1>12, <1>13 DEF Lifetime!Build, StageBar, UsersBar, Using

\* createX opens what the call has built.
LEMMA RegisterOpens ==
    ASSUME JInv, JInv', NEW t \in Threads, Register(t)
    PROVE  \E o \in Objects : Lifetime!Open(t, o)
<1> USE DEF IInv
<1>1. PICK o \in Objects, k \in Kinds, a \in Addresses :
         /\ o = own[t] /\ Building(t) /\ o \notin RegisteredObjects
         /\ registry[k][a] = NoObject
         /\ registry' = [registry EXCEPT ![k][a] = o]
  BY RegisterFacts DEF JInv
<1>2. UNCHANGED <<phase, pin, retired, lease, own>>
  BY DEF Register, heap
<1>3. RegisteredObjects' = RegisteredObjects \cup {o}
  BY <1>1, HandleAssumption DEF RegisteredObjects, JInv, TypeOK
<1>4. o \notin retired /\ Alive(o)
  BY <1>1, HandleAssumption DEF JInv, ReleaseIsFinal, LocalsOwn
<1>5. Stage(o) = "private" /\ Stage(o)' = "public"
  <2>1. Stage(o) = "private"
    BY <1>1, <1>4, Staged
  <2>2. o \in RegisteredObjects' /\ phase'[o] = "alive"
    BY <1>2, <1>3, <1>4 DEF Alive
  <2> QED
    BY <2>1, <2>2 DEF Stage
<1>6. \A p \in Objects \ {o} : Stage(p)' = Stage(p)
  BY <1>2, <1>3, SameStage
<1>7. StageBar' = [StageBar EXCEPT ![o] = "public"] /\ StageBar[o] = "private"
  BY <1>1, <1>5, <1>6 DEF StageBar
<1>8. UsersBar' = UsersBar
  BY <1>2 DEF UsersBar, Using, Leased
<1>9. t \in UsersBar[o]
  BY <1>1 DEF UsersBar, Using
<1> QED
  BY <1>1, <1>2, <1>7, <1>8, <1>9 DEF Lifetime!Open, StageBar, UsersBar, Using

\* acquireX enters a public object, or fails.
LEMMA AcquireEnters ==
    ASSUME JInv, JInv', NEW t \in Threads, AcquireLease(t)
    PROVE  (\E o \in Objects : Lifetime!Enter(t, o)) \/ UNCHANGED <<StageBar, UsersBar, pin>>
<1> USE DEF IInv
<1>1. UNCHANGED <<phase, pin, registry, retired, own>>
  BY DEF AcquireLease, heap, manager, history
<1>2. StageBar' = StageBar
  BY <1>1 DEF StageBar, Stage, RegisteredObjects
<1>3. CASE UNCHANGED lease
  BY <1>1, <1>2, <1>3 DEF UsersBar, Using, Leased
<1>4. ASSUME NEW k \in Kinds, NEW x \in Scopes, NEW h \in Addresses,
             registry[k][h] \in Objects,
             lease' = [lease EXCEPT ![t][x] = @ \cup {registry[k][h]}]
      PROVE  \E o \in Objects : Lifetime!Enter(t, o)
  <2>0. PICK o \in Objects : o = registry[k][h]
    BY <1>4
  <2>1. o \in RegisteredObjects
    BY <2>0, HandleAssumption DEF RegisteredObjects
  <2>2. StageBar[o] = "public"
    BY <1>4, <2>1, Staged DEF StageBar
  <2>3. Leased(t)' = Leased(t) \cup {o} /\ \A u \in Threads \ {t} : Leased(u)' = Leased(u)
    BY <1>4, <2>0 DEF Leased, JInv, TypeOK, Scopes
  <2>4. Using(o)' = Using(o) \cup {t} /\ \A p \in Objects \ {o} : Using(p)' = Using(p)
    BY <1>1, <2>3 DEF Using
  <2>5. UsersBar' = [UsersBar EXCEPT ![o] = @ \cup {t}]
    BY <1>4, <2>4 DEF UsersBar
  <2> QED
    BY <1>1, <1>2, <1>4, <2>2, <2>5 DEF Lifetime!Enter, StageBar, UsersBar, Using
<1> QED
  BY <1>3, <1>4, AcquireFacts DEF JInv

\* releaseX retires a public object, or fails; nothing dies under its lock.
LEMMA ReleaseRetires ==
    ASSUME JInv, JInv', NEW t \in Threads, Release(t)
    PROVE  (\E o \in Objects : Lifetime!Retire(t, o)) \/ UNCHANGED <<StageBar, UsersBar, pin>>
<1> USE DEF IInv
<1>1. UNCHANGED <<pin, lease>> /\ Reap
  BY DEF Release
<1>2. CASE Registered(Here(t).kind, Handle(t, Here(t).kind))
  <2>1. PICK o \in Objects, k \in Kinds, h \in Addresses :
          /\ o = registry[k][h]
          /\ registry' = [registry EXCEPT ![k][h] = NoObject]
          /\ own[t] = NoObject /\ own' = [own EXCEPT ![t] = o]
          /\ retired' = retired \cup {o}
          /\ RegisteredObjects' = RegisteredObjects \ {o}
    <3> HIDE DEF IInv
    <3>1. IInv /\ LocalsExplained
      BY DEF JInv
    <3>2. PICK k \in Kinds, h \in Addresses :
             /\ registry[k][h] \in Objects /\ k = Here(t).kind
             /\ registry' = [registry EXCEPT ![k][h] = NoObject]
             /\ own[t] = NoObject /\ own' = [own EXCEPT ![t] = registry[k][h]]
             /\ released' = [released EXCEPT ![k] = @ + 1]
             /\ retired' = retired \cup {registry[k][h]}
             /\ RegisteredObjects' = RegisteredObjects \ {registry[k][h]}
      BY <1>2, <3>1, ReleaseFacts, Zenon
    <3> QED
      BY <3>2
  <2>2. o \in RegisteredObjects /\ Alive(o)
    BY <2>1, HandleAssumption DEF RegisteredObjects, JInv, RegistryOwns
  <2>3. own'[t] = o /\ \A u \in Threads \ {t} : own'[u] = own[u]
    BY <2>1 DEF JInv, TypeOK
  <2>4. \A p \in Objects : Alive(p) => p \in Owned'
    <3>1. \A j \in Kinds, a \in Addresses : registry[j][a] \in {NoObject} \cup DirectlyOwned'
      <4>1. \A j \in Kinds, a \in Addresses : registry[j][a] = registry'[j][a] \/ registry[j][a] = o
        BY <2>1 DEF JInv, TypeOK
      <4>2. o \in DirectlyOwned'
        BY <2>3 DEF DirectlyOwned
      <4> QED
        BY <4>1, <4>2 DEF DirectlyOwned
    <3>2. \A u \in Threads : own[u] \in {NoObject} \cup DirectlyOwned'
      BY <2>1, <2>3 DEF DirectlyOwned
    <3>3. \A u \in Threads, s \in Scopes : lease[u][s] \subseteq DirectlyOwned'
      BY <1>1 DEF DirectlyOwned
    <3>4. Owned \cap Objects \subseteq Owned'
      BY <1>1, <3>1, <3>2, <3>3, OwnedGrows DEF JInv
    <3> QED
      BY <3>4 DEF JInv, AliveIsOwned
  <2>5. phase' = phase
    BY <1>1, <2>4 DEF Reap, Alive, JInv, TypeOK
  <2>6. Stage(o) = "public" /\ Stage(o)' = "retired"
    BY <2>1, <2>2, <2>5, Staged DEF Stage, Alive
  <2>7. \A p \in Objects \ {o} : Stage(p)' = Stage(p)
    BY <2>1, <2>5, SameStage
  <2>8. StageBar' = [StageBar EXCEPT ![o] = "retired"] /\ StageBar[o] = "public"
    BY <2>1, <2>6, <2>7 DEF StageBar
  <2>9. Using(o)' = Using(o) \cup {t} /\ \A p \in Objects \ {o} : Using(p)' = Using(p)
    BY <1>1, <2>1, <2>3, HandleAssumption DEF Using, Leased
  <2>10. UsersBar' = [UsersBar EXCEPT ![o] = @ \cup {t}]
    BY <2>1, <2>9 DEF UsersBar
  <2> QED
    BY <1>1, <2>1, <2>8, <2>10 DEF Lifetime!Retire, StageBar, UsersBar, Using
<1>3. CASE ~Registered(Here(t).kind, Handle(t, Here(t).kind))
  <2>1. UNCHANGED <<own, registry, retired>>
    BY <1>3 DEF Release
  <2>2. Owned' = Owned
    BY <1>1, <2>1 DEF Owned, DirectlyOwned
  <2>3. phase' = phase
    BY <1>1, <2>2 DEF Reap, JInv, TypeOK, AliveIsOwned, Alive
  <2> QED
    BY <1>1, <2>1, <2>3 DEF StageBar, Stage, RegisteredObjects, UsersBar, Using, Leased
<1> QED
  BY <1>2, <1>3

\* A call that drops owners leaves; what it destroys nobody uses or builds on.
LEMMA DropLeaves ==
    ASSUME JInv, JInv', Reap, UNCHANGED <<kind, pin, registry, retired>>, NEW t \in Threads,
           \A u \in Threads \ {t} : own'[u] = own[u] /\ Leased(u)' = Leased(u),
           own'[t] \in {own[t], NoObject}, Leased(t)' \subseteq Leased(t)
    PROVE  Lifetime!Leave(t)
<1> USE DEF IInv
<1>1. \A o \in Objects : Using(o)' \in {Using(o), Using(o) \ {t}}
  <2> SUFFICES ASSUME NEW o \in Objects PROVE Using(o)' \in {Using(o), Using(o) \ {t}}
    OBVIOUS
  <2>1. \A u \in Threads \ {t} : u \in Using(o)' <=> u \in Using(o)
    BY DEF Using
  <2>2. t \in Using(o)' => t \in Using(o)
    BY HandleAssumption DEF Using
  <2>3. Using(o) \subseteq Threads /\ Using(o)' \subseteq Threads
    BY DEF Using
  <2> QED
    BY <2>1, <2>2, <2>3
<1>2. RegisteredObjects' = RegisteredObjects
  BY DEF RegisteredObjects
<1>3. \A o \in Objects : Stage(o)' \in Lifetime!Stages
  BY DEF Stage, Lifetime!Stages
<1>4. ASSUME NEW o \in Objects, Stage(o)' # Stage(o)
      PROVE  /\ Stage(o) \in {"private", "retired"} /\ Stage(o)' = "destroyed"
             /\ Using(o)' = {}
             /\ \A c \in Objects : Stage(c) \in {"private", "public", "retired"} /\ pin[c] = o =>
                    Stage(c)' = "destroyed"
  <2>1. phase'[o] # phase[o]
    BY <1>2, <1>4, SameStage
  <2>2. Alive(o) /\ o \notin Owned' /\ phase'[o] = "dead"
    BY <2>1 DEF Reap, Alive
  <2>3. o \notin RegisteredObjects
    BY <1>2, <2>2, OwnedFacts DEF RegisteredObjects, Owned, DirectlyOwned
  <2>4. Stage(o) \in {"private", "retired"} /\ Stage(o)' = "destroyed"
    BY <2>2, <2>3, Staged DEF Stage
  <2>5. Using(o)' = {}
    BY <2>2 DEF Using, Leased, Owned, DirectlyOwned, Scopes
  <2>6. ASSUME NEW c \in Objects, Stage(c) \in {"private", "public", "retired"}, pin[c] = o
        PROVE  Stage(c)' = "destroyed"
    <3>1. Alive(c) /\ kind[c] = "capture"
      BY <2>6, Staged, HandleAssumption DEF JInv, PinnersAreCaptures, Alive, Fresh, TypeOK
    <3>2. \A d \in Objects : pin[d] # c
      BY <3>1, HandleAssumption DEF JInv, CapturesPin
    <3>3. c \notin DirectlyOwned'
      BY <2>2, <2>6 DEF Owned
    <3>4. c \notin Owned'
      BY <3>2, <3>3 DEF Owned
    <3>5. phase'[c] = "dead"
      BY <3>1, <3>4 DEF Reap, Alive
    <3> QED
      BY <3>5 DEF Stage
  <2> QED
    BY <2>4, <2>5, <2>6
<1>5. /\ \A o \in Objects : UsersBar'[o] = Using(o)' /\ UsersBar[o] = Using(o)
                           /\ StageBar'[o] = Stage(o)' /\ StageBar[o] = Stage(o)
      /\ DOMAIN UsersBar' = Objects
      /\ StageBar' \in [Objects -> Lifetime!Stages]
  BY <1>3 DEF UsersBar, StageBar
<1>6. /\ \A o \in Objects : UsersBar'[o] \in {UsersBar[o], UsersBar[o] \ {t}}
      /\ \A o \in Objects :
           \/ StageBar'[o] = StageBar[o]
           \/ /\ StageBar[o] \in {"private", "retired"} /\ StageBar'[o] = "destroyed"
              /\ UsersBar'[o] = {}
              /\ \A c \in Objects : StageBar[c] \in {"private", "public", "retired"} /\ pin[c] = o =>
                    StageBar'[c] = "destroyed"
  BY <1>1, <1>4, <1>5
<1> QED
  BY <1>5, <1>6 DEF Lifetime!Leave, Lifetime!Existing, StageBar, UsersBar, Using

\* The handle layer implements the lifetimes that ResourceLease documents.
THEOREM HandlesImplementLifetimes == Spec => ImplementsLifetime
<1>1. Init => Lifetime!LifeInit
  BY HandleAssumption DEF Init, Lifetime!LifeInit, Stage, Leased, NoLeases, Scopes
<1>2. JInv /\ JInv' /\ [Next]_vars => [Lifetime!LifeNext]_(Lifetime!lifeVars)
  <2> SUFFICES ASSUME JInv, JInv', [Next]_vars
               PROVE  [Lifetime!LifeNext]_(Lifetime!lifeVars)
    OBVIOUS
  <2>0. UNCHANGED <<StageBar, UsersBar, pin>> => UNCHANGED Lifetime!lifeVars
    BY DEF StageBar, UsersBar, Using, Lifetime!lifeVars
  <2>1. CASE UNCHANGED vars
    <3>1. UNCHANGED <<StageBar, UsersBar, pin>>
      BY <2>1 DEF vars, StageBar, Stage, RegisteredObjects, UsersBar, Using, Leased
    <3> QED
      BY <2>0, <3>1
  <2>2. ASSUME NEW t \in Threads, Invoke(t) \/ Step(t)
        PROVE  Lifetime!LifeNext \/ UNCHANGED <<StageBar, UsersBar, pin>>
    <3>1. CASE Construct(t)
      BY <3>1, ConstructBuilds DEF Lifetime!LifeNext
    <3>2. CASE Register(t)
      BY <3>2, RegisterOpens DEF Lifetime!LifeNext
    <3>3. CASE AcquireLease(t)
      BY <3>3, AcquireEnters DEF Lifetime!LifeNext
    <3>4. CASE Release(t)
      BY <3>4, ReleaseRetires DEF Lifetime!LifeNext
    <3>5. CASE ReturnNested(t) \/ Return(t)
      <4>1. /\ Reap /\ UNCHANGED <<kind, pin, registry, retired>>
            /\ \A u \in Threads \ {t} : own'[u] = own[u] /\ Leased(u)' = Leased(u)
            /\ own'[t] \in {own[t], NoObject} /\ Leased(t)' \subseteq Leased(t)
        <5>1. CASE ReturnNested(t)
          BY <5>1 DEF ReturnNested, manager, history, Leased, Scopes, JInv, IInv, TypeOK
        <5>2. CASE Return(t)
          <6>1. /\ lease' = [lease EXCEPT ![t] = NoLeases] /\ own' = [own EXCEPT ![t] = NoObject]
                /\ Reap /\ UNCHANGED <<kind, pin, registry, retired>>
            BY <5>2 DEF Return, DropLocals, manager, history
          <6>2. \A u \in Threads \ {t} : own'[u] = own[u] /\ lease'[u] = lease[u]
            BY <6>1 DEF JInv, IInv, TypeOK
          <6>3. own'[t] = NoObject /\ Leased(t)' = {}
            BY <6>1 DEF JInv, IInv, TypeOK, Leased, NoLeases, Scopes
          <6> QED
            BY <6>1, <6>2, <6>3 DEF Leased
        <5> QED
          BY <3>5, <5>1, <5>2
      <4> QED
        BY <4>1, DropLeaves DEF Lifetime!LifeNext
    <3>6. CASE Invoke(t) \/ DoWork(t) \/ ConstructFails(t)
      <4>1. UNCHANGED <<phase, pin, registry, retired, own, lease>>
        BY <3>6 DEF Invoke, DoWork, ConstructFails, heap, manager, history
      <4> QED
        BY <4>1 DEF StageBar, Stage, RegisteredObjects, UsersBar, Using, Leased
    <3> QED
      BY <2>2, <3>1, <3>2, <3>3, <3>4, <3>5, <3>6 DEF Step
  <2> QED
    BY <2>0, <2>1, <2>2 DEF Next
<1> QED
  BY <1>1, <1>2, StrongInvariance, PTL DEF Spec, ImplementsLifetime, Lifetime!LifeSpec
=============================================================================
