---------------------------- MODULE ResourcePool ----------------------------
(***************************************************************************)
(* The blocking pool through which programs share sessions between threads *)
(* (middleware/thread/resource_pool.h).  Every member function holds the   *)
(* pool's mutex, so it is one action; a wait on the condition variable     *)
(* ends one action and its wake-up begins another.  A resource is the      *)
(* index at which it was added; the deque never moves it.                  *)
(***************************************************************************)
EXTENDS Naturals, Sequences, FiniteSets

CONSTANTS
    Threads,       \* client threads
    Slots,         \* places where a thread keeps guard objects
    MaxResources,  \* how many resources are added (a bound)
    MaxCalls       \* how many times a thread calls an acquire function (a bound)

ASSUME PoolAssumption ==
    /\ IsFiniteSet(Threads)
    /\ MaxResources \in Nat /\ MaxCalls \in Nat

VARIABLES
    total,      \* m_resources.size()
    available,  \* m_available_resources, a queue
    mode,       \* mode[t]: "none", or the acquire call t waits in
    woken,      \* threads whose wait on m_cv has ended, not yet running again
    guard,      \* guard[t][s]: the ResourceGuard in slot s of t
    calls       \* calls[t]: acquire calls made so far

vars == <<total, available, mode, woken, guard, calls>>

NoGuard == [ref |-> 0, valid |-> FALSE]
Waiting == {t \in Threads : mode[t] # "none"}
Sleeping == Waiting \ woken
FreeSlots(t) == {s \in Slots : guard[t][s] = NoGuard}

Init ==
    /\ total = 0
    /\ available = <<>>
    /\ mode = [t \in Threads |-> "none"]
    /\ woken = {}
    /\ guard = [t \in Threads |-> [s \in Slots |-> NoGuard]]
    /\ calls = [t \in Threads |-> 0]

\* Mutant: nobody is told.
NotifyNobody == UNCHANGED woken

\* m_cv.notify_one(): one sleeping thread wakes up, if any sleeps.
NotifyOne ==
    \/ Sleeping = {} /\ UNCHANGED woken
    \/ \E t \in Sleeping : woken' = woken \cup {t}

\* front(), pop() and the guard the caller receives.
Take(t) ==
    /\ LET s == CHOOSE x \in FreeSlots(t) : TRUE
       IN guard' = [guard EXCEPT ![t][s] = [ref |-> Head(available), valid |-> TRUE]]
    /\ available' = Tail(available)

AddResource ==
    /\ total < MaxResources
    /\ total' = total + 1
    /\ available' = Append(available, total + 1)
    /\ NotifyOne
    /\ UNCHANGED <<mode, guard, calls>>

\* AcquireResource(), AcquireResource(timeout) and TryAcquireResource().
AcquireResource(t) ==
    /\ mode[t] = "none" /\ FreeSlots(t) # {} /\ calls[t] < MaxCalls
    /\ calls' = [calls EXCEPT ![t] = @ + 1]
    /\ IF available # <<>>
       THEN Take(t) /\ UNCHANGED mode
       ELSE /\ \E m \in {"blocking", "timed", "none"} : mode' = [mode EXCEPT ![t] = m]
            /\ UNCHANGED <<guard, available>>
    /\ UNCHANGED <<total, woken>>

\* A wait ends without a notification.
WakeSpuriously(t) ==
    /\ t \in Sleeping
    /\ woken' = woken \cup {t}
    /\ UNCHANGED <<total, available, mode, guard, calls>>

\* The thread has the mutex again and re-evaluates the wait's predicate.
Recheck(t) ==
    /\ t \in woken
    /\ woken' = woken \ {t}
    /\ IF available # <<>>
       THEN Take(t) /\ mode' = [mode EXCEPT ![t] = "none"]
       ELSE UNCHANGED <<guard, available, mode>>
    /\ UNCHANGED <<total, calls>>

\* Mutant: a wait that has timed out returns nullptr without looking.
GiveUpOnTimeout(t) ==
    /\ mode[t] = "timed"
    /\ woken' = woken \ {t}
    /\ mode' = [mode EXCEPT ![t] = "none"]
    /\ UNCHANGED <<total, guard, available, calls>>

\* wait_for returns the predicate's value when the time is up, so that even
\* then the thread takes a resource if there is one.
TimeOut(t) ==
    /\ mode[t] = "timed"
    /\ woken' = woken \ {t}
    /\ mode' = [mode EXCEPT ![t] = "none"]
    /\ IF available # <<>> THEN Take(t) ELSE UNCHANGED <<guard, available>>
    /\ UNCHANGED <<total, calls>>

\* Mutant: a move leaves its source valid.
CopyGuard(t, s, r) ==
    /\ mode[t] = "none"
    /\ guard[t][s] # NoGuard /\ r \in FreeSlots(t)
    /\ guard' = [guard EXCEPT ![t][r] = guard[t][s]]
    /\ UNCHANGED <<total, available, mode, woken, calls>>

\* Mutant: the new guard of a move starts invalid, like its source.
DropSource(t, s, r) ==
    /\ mode[t] = "none"
    /\ guard[t][s] # NoGuard /\ r \in FreeSlots(t)
    /\ guard' = [guard EXCEPT ![t] = [@ EXCEPT ![r] = [ref |-> guard[t][s].ref, valid |-> FALSE],
                                               ![s] = [ref |-> guard[t][s].ref, valid |-> FALSE]]]
    /\ UNCHANGED <<total, available, mode, woken, calls>>

\* ResourceGuard(ResourceGuard&&), from slot s to slot r.
MoveGuard(t, s, r) ==
    /\ mode[t] = "none"
    /\ guard[t][s] # NoGuard /\ r \in FreeSlots(t)
    /\ guard' = [guard EXCEPT ![t] = [@ EXCEPT ![r] = guard[t][s],
                                               ![s] = [ref |-> guard[t][s].ref, valid |-> FALSE]]]
    /\ UNCHANGED <<total, available, mode, woken, calls>>

\* ~ResourceGuard and, for a valid guard, ReturnResource.
DropGuard(t, s) ==
    /\ mode[t] = "none"
    /\ guard[t][s] # NoGuard
    /\ guard' = [guard EXCEPT ![t][s] = NoGuard]
    /\ IF guard[t][s].valid /\ guard[t][s].ref \in 1..total
       THEN available' = Append(available, guard[t][s].ref) /\ NotifyOne
       ELSE UNCHANGED <<available, woken>>
    /\ UNCHANGED <<total, mode, calls>>

Drop(t) == \E s \in Slots : DropGuard(t, s)
GiveBack(t) == \E s \in Slots : guard[t][s].valid /\ DropGuard(t, s)

Next ==
    \/ AddResource
    \/ \E t \in Threads :
         \/ AcquireResource(t)
         \/ WakeSpuriously(t)
         \/ Recheck(t)
         \/ TimeOut(t)
         \/ Drop(t)
         \/ \E s, r \in Slots : MoveGuard(t, s, r)

Spec == Init /\ [][Next]_vars

\* The program fills the pool; the scheduler runs a thread that has woken up;
\* a timed wait times out; a thread that holds resources and is not waiting lets
\* the guard of one of them go out of scope, however it moves them about.
FairSpec ==
    /\ Spec
    /\ WF_vars(AddResource)
    /\ \A t \in Threads : WF_vars(Recheck(t)) /\ WF_vars(TimeOut(t)) /\ WF_vars(GiveBack(t))

-----------------------------------------------------------------------------
(* Properties. *)

\* Every variable has its type, and a woken thread is one that waits.
TypeOK ==
    /\ total \in 0..MaxResources
    /\ available \in Seq(1..total)
    /\ mode \in [Threads -> {"none", "blocking", "timed"}]
    /\ woken \subseteq Waiting
    /\ guard \in [Threads -> [Slots -> [ref : 0..total, valid : BOOLEAN]]]
    /\ calls \in [Threads -> Nat]

Holds(t, s, r) == guard[t][s] = [ref |-> r, valid |-> TRUE]
IsAvailable(r) == \E i \in DOMAIN available : available[i] = r

\* A session in the pool is used by one thread at a time: a resource has one
\* valid guard at most, and none while it is available; it is available once.
\* Moving a guard neither duplicates nor ends the right to the resource.
Exclusive ==
    /\ \A r \in 1..total :
         /\ \A t, u \in Threads : \A s, x \in Slots :
              Holds(t, s, r) /\ Holds(u, x, r) => t = u /\ s = x
         /\ \A t \in Threads, s \in Slots : Holds(t, s, r) => ~IsAvailable(r)
    /\ \A i, j \in DOMAIN available : available[i] = available[j] => i = j

\* No resource is lost: each one that was added is available, or is held by a
\* guard that will return it (a timed-out or moved-from guard loses none).
NothingLost ==
    \A r \in 1..total :
        IsAvailable(r) \/ \E t \in Threads, s \in Slots : Holds(t, s, r)

\* The threads that have a valid guard of a resource, in whichever slots.
Borrowers(r) == {t \in Threads : \E s \in Slots : Holds(t, s, r)}

\* The pool is a queue that lends each resource to one thread at a time, which
\* alone returns it: moves, timeouts, notifications and wake-ups that come to
\* nothing pass no resource from one thread to another and change no order.
Lending == INSTANCE ResourceLending WITH
    size <- total,
    queue <- available,
    borrowers <- [r \in 1..total |-> Borrowers(r)]

ImplementsLending == Lending!LendingSpec

\* No wake-up is lost: while threads sleep, a thread is on its way to every
\* available resource.  A notification that reaches a timed wait just as it
\* times out, or a thread overtaken by another caller, is not wasted.
NoLostWakeup == Sleeping # {} => Len(available) <= Cardinality(woken)

\* The pool is full, and each resource is held by a thread that is itself blocked
\* waiting for another.
HoldAndWait ==
    /\ total = MaxResources
    /\ \A r \in 1..total : \E t \in Threads, s \in Slots :
         mode[t] = "blocking" /\ Holds(t, s, r)

\* Every acquire that waits returns, when threads make finitely many calls and
\* drop their guards, unless the clients block one another: every resource is
\* held by threads that wait for one more.
EveryWaitEnds == \A t \in Threads : (mode[t] # "none") ~> (mode[t] = "none" \/ HoldAndWait)
=============================================================================
