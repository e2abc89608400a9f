------------------------ MODULE ResourcePool_proofs ------------------------
(***************************************************************************)
(* Theorems about ResourcePool, for any threads, guard slots and number of *)
(* resources.  Exclusive use is inductive together with the type of the    *)
(* valid guards and the room a waiting thread keeps for its guard; the     *)
(* absence of lost wake-ups is inductive by counting the woken threads.    *)
(* With exclusive use, the pool implements ResourceLending.                *)
(***************************************************************************)
EXTENDS ResourcePool, FiniteSetTheorems, TLAPS

\* A thread in an acquire call has a place for the guard it will receive.
RoomWhenWaiting == \A t \in Threads : mode[t] # "none" => FreeSlots(t) # {}

\* A valid guard refers to a resource of the pool.
ValidGuardsRefer ==
    \A t \in Threads, s \in Slots : guard[t][s].valid => guard[t][s].ref \in 1..total

\* The inductive invariant.
IInv ==
    /\ TypeOK
    /\ RoomWhenWaiting
    /\ ValidGuardsRefer
    /\ Exclusive
    /\ NothingLost

-----------------------------------------------------------------------------
(* Queues of resources. *)

\* What front() and pop() do to a queue that is not empty.
LEMMA HeadTail ==
    ASSUME NEW S, NEW q \in Seq(S), q # <<>>
    PROVE  /\ Len(q) \in Nat \ {0} /\ DOMAIN q = 1..Len(q)
           /\ Head(q) = q[1] /\ q[1] \in S
           /\ Tail(q) \in Seq(S) /\ Len(Tail(q)) = Len(q) - 1
           /\ DOMAIN Tail(q) = 1..(Len(q) - 1)
           /\ \A i \in 1..(Len(q) - 1) : Tail(q)[i] = q[i + 1]
OBVIOUS

\* What push() does to a queue.
LEMMA AppendLast ==
    ASSUME NEW S, NEW q \in Seq(S), NEW x \in S
    PROVE  /\ Len(q) \in Nat /\ DOMAIN q = 1..Len(q)
           /\ Append(q, x) \in Seq(S) /\ Len(Append(q, x)) = Len(q) + 1
           /\ DOMAIN Append(q, x) = 1..(Len(q) + 1)
           /\ \A i \in 1..Len(q) : Append(q, x)[i] = q[i]
           /\ Append(q, x)[Len(q) + 1] = x
OBVIOUS

\* A queue over a set is a queue over a larger one.
LEMMA SeqMonotonic ==
    ASSUME NEW S, NEW T, S \subseteq T, NEW q \in Seq(S)
    PROVE  q \in Seq(T)
<1>1. q \in [1..Len(q) -> S] /\ Len(q) \in Nat
  OBVIOUS
<1>2. q \in [1..Len(q) -> T]
  BY <1>1
<1> QED
  BY <1>1, <1>2

\* A guard slot is free or holds a guard; the choice of a free slot is free.
LEMMA FreeSlot ==
    ASSUME NEW t \in Threads, FreeSlots(t) # {}
    PROVE  /\ (CHOOSE x \in FreeSlots(t) : TRUE) \in Slots
           /\ guard[t][CHOOSE x \in FreeSlots(t) : TRUE] = NoGuard
BY DEF FreeSlots

-----------------------------------------------------------------------------
(* The steps. *)

\* Taking the front of the queue into a free slot preserves exclusive use and
\* loses nothing.
LEMMA TakeKeeps ==
    ASSUME TypeOK, ValidGuardsRefer, Exclusive, NothingLost,
           NEW t \in Threads, FreeSlots(t) # {}, available # <<>>, Take(t), total' = total,
           NEW r, r = Head(available)
    PROVE  /\ available' \in Seq(1..total)
           /\ guard' \in [Threads -> [Slots -> [ref : 0..total, valid : BOOLEAN]]]
           /\ \A u \in Threads \ {t} : guard'[u] = guard[u]
           /\ ValidGuardsRefer' /\ Exclusive' /\ NothingLost'
           /\ r \in 1..total /\ Borrowers(r) = {} /\ Borrowers(r)' = {t}
           /\ \A y \in 1..total \ {r} : Borrowers(y)' = Borrowers(y)
<1> DEFINE G == [ref |-> r, valid |-> TRUE]
<1>1. PICK s \in Slots : /\ guard[t][s] = NoGuard
                         /\ guard' = [guard EXCEPT ![t][s] = G]
                         /\ available' = Tail(available)
  BY FreeSlot DEF Take
<1>2. total \in Nat /\ available \in Seq(1..total)
  BY PoolAssumption DEF TypeOK
<1>3. /\ Len(available) \in Nat \ {0} /\ DOMAIN available = 1..Len(available)
      /\ r = available[1] /\ r \in 1..total
      /\ available' \in Seq(1..total) /\ DOMAIN available' = 1..(Len(available) - 1)
      /\ \A i \in 1..(Len(available) - 1) : available'[i] = available[i + 1]
  <2> DEFINE S == 1..total
  <2>1. available \in Seq(S)
    BY <1>2
  <2> HIDE DEF S
  <2>2. /\ Len(available) \in Nat \ {0} /\ DOMAIN available = 1..Len(available)
        /\ r = available[1] /\ r \in S
        /\ Tail(available) \in Seq(S) /\ DOMAIN Tail(available) = 1..(Len(available) - 1)
        /\ \A i \in 1..(Len(available) - 1) : Tail(available)[i] = available[i + 1]
    BY <2>1, HeadTail
  <2> QED
    BY <1>1, <2>2 DEF S
<1>4. G \in [ref : 0..total, valid : BOOLEAN]
  BY <1>2, <1>3
<1> HIDE DEF G
<1>5. /\ guard' \in [Threads -> [Slots -> [ref : 0..total, valid : BOOLEAN]]]
      /\ guard'[t][s] = G
      /\ \A u \in Threads, x \in Slots : u # t \/ x # s => guard'[u][x] = guard[u][x]
      /\ \A u \in Threads \ {t} : guard'[u] = guard[u]
  BY <1>1, <1>4 DEF TypeOK
<1>6. ~guard[t][s].valid /\ G.valid /\ G.ref = r /\ G = [ref |-> r, valid |-> TRUE]
  BY <1>1 DEF NoGuard, G
<1>7. ValidGuardsRefer'
  <2> SUFFICES ASSUME NEW u \in Threads, NEW x \in Slots, guard'[u][x].valid
               PROVE  guard'[u][x].ref \in 1..total
    BY DEF ValidGuardsRefer
  <2>1. CASE u = t /\ x = s
    BY <1>3, <1>5, <1>6, <2>1
  <2>2. CASE u # t \/ x # s
    BY <1>5, <2>2 DEF ValidGuardsRefer
  <2> QED
    BY <2>1, <2>2
<1>8. \A u \in Threads, x \in Slots, y \in 1..total :
        Holds(u, x, y)' <=> Holds(u, x, y) \/ (u = t /\ x = s /\ y = r)
  <2> SUFFICES ASSUME NEW u \in Threads, NEW x \in Slots, NEW y \in 1..total
               PROVE  Holds(u, x, y)' <=> Holds(u, x, y) \/ (u = t /\ x = s /\ y = r)
    OBVIOUS
  <2>1. CASE u = t /\ x = s
    <3>1. Holds(u, x, y)' <=> G = [ref |-> y, valid |-> TRUE]
      BY <1>5, <2>1 DEF Holds
    <3>2. ~Holds(u, x, y)
      BY <1>6, <2>1 DEF Holds
    <3>3. G = [ref |-> y, valid |-> TRUE] <=> y = r
      BY <1>6
    <3> QED
      BY <2>1, <3>1, <3>2, <3>3
  <2>2. CASE u # t \/ x # s
    BY <1>5, <2>2 DEF Holds
  <2> QED
    BY <2>1, <2>2
<1>9. \A y \in 1..total : IsAvailable(y)' <=> IsAvailable(y) /\ y # r
  <2> SUFFICES ASSUME NEW y \in 1..total
               PROVE  IsAvailable(y)' <=> IsAvailable(y) /\ y # r
    OBVIOUS
  <2>1. ASSUME IsAvailable(y)' PROVE IsAvailable(y) /\ y # r
    <3>1. PICK i \in 1..(Len(available) - 1) : available[i + 1] = y
      BY <1>3, <2>1 DEF IsAvailable
    <3>2. i + 1 \in DOMAIN available /\ 1 \in DOMAIN available /\ i + 1 # 1
      BY <1>3
    <3> QED
      BY <1>3, <3>1, <3>2 DEF IsAvailable, Exclusive
  <2>2. ASSUME IsAvailable(y), y # r PROVE IsAvailable(y)'
    <3>1. PICK i \in 1..Len(available) : available[i] = y
      BY <1>3, <2>2 DEF IsAvailable
    <3>2. i - 1 \in 1..(Len(available) - 1) /\ available[(i - 1) + 1] = y
      BY <1>3, <2>2, <3>1
    <3>3. i - 1 \in DOMAIN available' /\ available'[i - 1] = y
      BY <1>3, <3>2
    <3> QED
      BY <3>3 DEF IsAvailable
  <2> QED
    BY <2>1, <2>2
<1>10. \A i, j \in DOMAIN available' : available'[i] = available'[j] => i = j
  <2> SUFFICES ASSUME NEW i \in 1..(Len(available) - 1), NEW j \in 1..(Len(available) - 1),
                      available'[i] = available'[j]
               PROVE  i = j
    BY <1>3
  <2>1. available[i + 1] = available[j + 1] /\ i + 1 \in DOMAIN available
          /\ j + 1 \in DOMAIN available
    BY <1>3
  <2>2. i + 1 = j + 1
    BY <2>1 DEF Exclusive
  <2> QED
    BY <2>2
<1>11. IsAvailable(r) /\ \A u \in Threads, x \in Slots : ~Holds(u, x, r)
  <2>1. 1 \in DOMAIN available /\ available[1] = r
    BY <1>3
  <2> QED
    BY <1>3, <2>1 DEF IsAvailable, Exclusive
<1>12. Exclusive'
  <2>1. ASSUME NEW y \in 1..total, NEW u \in Threads, NEW v \in Threads,
               NEW x \in Slots, NEW z \in Slots, Holds(u, x, y)', Holds(v, z, y)'
        PROVE  u = v /\ x = z
    BY <1>8, <1>11, <2>1 DEF Exclusive
  <2>2. ASSUME NEW y \in 1..total, NEW u \in Threads, NEW x \in Slots, Holds(u, x, y)'
        PROVE  ~IsAvailable(y)'
    BY <1>8, <1>9, <2>2 DEF Exclusive
  <2> QED
    BY <1>10, <2>1, <2>2 DEF Exclusive
<1>13. NothingLost'
  BY <1>3, <1>8, <1>9, <1>1 DEF NothingLost
<1>14. Borrowers(r) = {} /\ Borrowers(r)' = {t}
  BY <1>1, <1>3, <1>8, <1>11 DEF Borrowers
<1>15. \A y \in 1..total \ {r} : Borrowers(y)' = Borrowers(y)
  BY <1>8 DEF Borrowers
<1> QED
  BY <1>3, <1>5, <1>7, <1>12, <1>13, <1>14, <1>15

\* A step of the wake-ups, the modes and the call counts only.
LEMMA GuardsKept ==
    ASSUME UNCHANGED <<total, available, guard>>, ValidGuardsRefer, Exclusive, NothingLost
    PROVE  ValidGuardsRefer' /\ Exclusive' /\ NothingLost'
BY DEF ValidGuardsRefer, Exclusive, NothingLost, Holds, IsAvailable

\* Who sleeps after a notification.
LEMMA NotifyKeeps ==
    ASSUME TypeOK, NotifyOne, UNCHANGED mode
    PROVE  woken' \subseteq Waiting'
BY DEF NotifyOne, Sleeping, Waiting, TypeOK

\* The empty pool.
LEMMA InitInv == Init => IInv
<1> SUFFICES ASSUME Init PROVE IInv
  OBVIOUS
<1>1. TypeOK
  BY PoolAssumption DEF Init, TypeOK, Waiting, NoGuard
<1>2. RoomWhenWaiting /\ ValidGuardsRefer
  BY DEF Init, RoomWhenWaiting, ValidGuardsRefer, NoGuard
<1>3. Exclusive /\ NothingLost
  BY DEF Init, Exclusive, NothingLost
<1> QED
  BY <1>1, <1>2, <1>3 DEF IInv

\* A new resource is available, to nobody yet.
LEMMA AddInv ==
    ASSUME IInv, AddResource, NEW n, n = total + 1
    PROVE  /\ IInv'
           /\ Borrowers(n)' = {}
           /\ \A y \in 1..total : Borrowers(y)' = Borrowers(y)
<1> USE DEF IInv
<1>1. /\ total \in Nat /\ n \in Nat /\ n = total + 1 /\ n = total' /\ total' = total + 1 /\ total' \in 0..MaxResources
      /\ available \in Seq(1..total') /\ total' \in 1..total'
      /\ available' = Append(available, total')
      /\ UNCHANGED <<mode, guard, calls>>
  <2>1. total \in Nat /\ total' = total + 1 /\ total' \in 0..MaxResources
    BY PoolAssumption DEF AddResource, TypeOK
  <2>2. 1..total \subseteq 1..total'
    BY <2>1
  <2>3. available \in Seq(1..total')
    BY <2>2, SeqMonotonic DEF TypeOK
  <2> QED
    BY <2>1, <2>3 DEF AddResource
<1>2. /\ Len(available) \in Nat /\ DOMAIN available = 1..Len(available)
      /\ available' \in Seq(1..total') /\ DOMAIN available' = 1..(Len(available) + 1)
      /\ \A i \in 1..Len(available) : available'[i] = available[i]
      /\ available'[Len(available) + 1] = n
  <2> DEFINE S == 1..total'
  <2>1. available \in Seq(S) /\ total' \in S
    BY <1>1
  <2> HIDE DEF S
  <2> QED
    BY <1>1, <2>1, AppendLast DEF S
<1>3. TypeOK'
  <2>1. guard' \in [Threads -> [Slots -> [ref : 0..total', valid : BOOLEAN]]]
    BY <1>1 DEF TypeOK
  <2> QED
    BY <1>1, <1>2, <2>1, NotifyKeeps DEF TypeOK, AddResource
<1>4. RoomWhenWaiting'
  BY <1>1 DEF RoomWhenWaiting, FreeSlots
<1>5. ValidGuardsRefer'
  BY <1>1 DEF ValidGuardsRefer
<1>6. \A y \in 1..total, u \in Threads, x \in Slots : Holds(u, x, y)' <=> Holds(u, x, y)
  BY <1>1 DEF Holds
<1>7. \A u \in Threads, x \in Slots : ~Holds(u, x, n)'
  <2> SUFFICES ASSUME NEW u \in Threads, NEW x \in Slots,
                      guard[u][x] = [ref |-> n, valid |-> TRUE]
               PROVE  FALSE
    BY <1>1 DEF Holds
  <2>1. guard[u][x].valid /\ guard[u][x].ref = n
    OBVIOUS
  <2> QED
    BY <1>1, <2>1 DEF ValidGuardsRefer
<1>8. \A i \in 1..Len(available) : available[i] \in 1..total
  BY <1>2 DEF TypeOK
<1>9. \A y \in 1..total : IsAvailable(y)' <=> IsAvailable(y)
  BY <1>1, <1>2 DEF IsAvailable
<1>10. IsAvailable(n)'
  BY <1>2 DEF IsAvailable
<1>11. Exclusive'
  <2>1. \A i, j \in DOMAIN available' : available'[i] = available'[j] => i = j
    BY <1>1, <1>2, <1>8 DEF Exclusive
  <2>2. \A y \in 1..total' : y \in 1..total \/ y = n
    BY <1>1
  <2>3. ASSUME NEW y \in 1..total', NEW u \in Threads, NEW v \in Threads,
               NEW x \in Slots, NEW z \in Slots, Holds(u, x, y)'
        PROVE  /\ Holds(v, z, y)' => u = v /\ x = z
               /\ ~IsAvailable(y)'
    <3>1. y \in 1..total
      BY <1>7, <2>2, <2>3
    <3> QED
      BY <1>6, <1>9, <2>3, <3>1 DEF Exclusive
  <2> QED
    BY <2>1, <2>3 DEF Exclusive
<1>12. NothingLost'
  <2> SUFFICES ASSUME NEW y \in 1..total'
               PROVE  IsAvailable(y)' \/ \E t \in Threads, s \in Slots : Holds(t, s, y)'
    BY DEF NothingLost
  <2>1. CASE y = n
    BY <1>10, <2>1
  <2>2. CASE y \in 1..total
    BY <1>6, <1>9, <2>2 DEF NothingLost
  <2> QED
    BY <1>1, <2>1, <2>2
<1>13. Borrowers(n)' = {} /\ \A y \in 1..total : Borrowers(y)' = Borrowers(y)
  BY <1>6, <1>7 DEF Borrowers
<1> QED
  BY <1>1, <1>3, <1>4, <1>5, <1>11, <1>12, <1>13

\* Entering an acquire function: a resource at once, a wait, or nullptr.
LEMMA AcquireInv ==
    ASSUME IInv, NEW t \in Threads, AcquireResource(t)
    PROVE  IInv'
<1> USE DEF IInv
<1>1. /\ total' = total /\ woken' = woken /\ mode[t] = "none" /\ FreeSlots(t) # {}
      /\ calls' \in [Threads -> Nat]
  BY DEF AcquireResource, TypeOK
<1>2. CASE available # <<>>
  <2>1. Take(t) /\ UNCHANGED mode
    BY <1>2 DEF AcquireResource
  <2>2. /\ available' \in Seq(1..total)
        /\ guard' \in [Threads -> [Slots -> [ref : 0..total, valid : BOOLEAN]]]
        /\ \A u \in Threads \ {t} : guard'[u] = guard[u]
        /\ ValidGuardsRefer' /\ Exclusive' /\ NothingLost'
    BY <1>1, <1>2, <2>1, TakeKeeps
  <2>3. TypeOK'
    BY <1>1, <2>1, <2>2 DEF TypeOK, Waiting
  <2>4. RoomWhenWaiting'
    BY <1>1, <2>1, <2>2 DEF RoomWhenWaiting, FreeSlots
  <2> QED
    BY <2>2, <2>3, <2>4
<1>3. CASE available = <<>>
  <2>1. PICK m \in {"blocking", "timed", "none"} :
           mode' = [mode EXCEPT ![t] = m] /\ UNCHANGED <<guard, available>>
    BY <1>3 DEF AcquireResource
  <2>2. TypeOK'
    BY <1>1, <2>1 DEF TypeOK, Waiting
  <2>3. RoomWhenWaiting'
    BY <1>1, <2>1 DEF RoomWhenWaiting, FreeSlots, TypeOK
  <2> QED
    BY <1>1, <2>1, <2>2, <2>3, GuardsKept
<1> QED
  BY <1>2, <1>3

\* A wait that ends: the thread leaves with a resource, leaves without, or
\* sleeps again.
LEMMA WaitEndsInv ==
    ASSUME IInv, NEW t \in Threads, mode[t] # "none",
           woken' = woken \ {t}, UNCHANGED <<total, calls>>,
           \/ /\ available # <<>> /\ Take(t)
              /\ mode' = [mode EXCEPT ![t] = "none"]
           \/ /\ UNCHANGED <<guard, available>>
              /\ mode' = mode \/ mode' = [mode EXCEPT ![t] = "none"]
    PROVE  IInv'
<1> USE DEF IInv
<1>1. FreeSlots(t) # {}
  BY DEF RoomWhenWaiting
<1>2. /\ mode' \in [Threads -> {"none", "blocking", "timed"}]
      /\ \A u \in Threads \ {t} : mode'[u] = mode[u]
      /\ mode'[t] \in {mode[t], "none"}
      /\ woken' \subseteq Waiting'
  BY DEF TypeOK, Waiting
<1>3. CASE available # <<>> /\ Take(t) /\ mode' = [mode EXCEPT ![t] = "none"]
  <2>1. /\ available' \in Seq(1..total)
        /\ guard' \in [Threads -> [Slots -> [ref : 0..total, valid : BOOLEAN]]]
        /\ \A u \in Threads \ {t} : guard'[u] = guard[u]
        /\ ValidGuardsRefer' /\ Exclusive' /\ NothingLost'
    BY <1>1, <1>3, TakeKeeps
  <2>2. TypeOK'
    BY <1>2, <2>1 DEF TypeOK
  <2>3. mode'[t] = "none"
    BY <1>3 DEF TypeOK
  <2>4. RoomWhenWaiting'
    <3> SUFFICES ASSUME NEW u \in Threads, mode'[u] # "none"
                 PROVE  FreeSlots(u)' # {}
      BY DEF RoomWhenWaiting
    <3>1. u # t /\ mode[u] # "none" /\ guard'[u] = guard[u]
      BY <1>2, <2>1, <2>3
    <3>2. FreeSlots(u)' = FreeSlots(u)
      BY <3>1 DEF FreeSlots
    <3> QED
      BY <3>1, <3>2 DEF RoomWhenWaiting
  <2> QED
    BY <2>1, <2>2, <2>4
<1>4. CASE UNCHANGED <<guard, available>>
  <2>1. TypeOK'
    BY <1>2, <1>4 DEF TypeOK
  <2>2. RoomWhenWaiting'
    BY <1>2, <1>4 DEF RoomWhenWaiting, FreeSlots
  <2> QED
    BY <1>4, <2>1, <2>2, GuardsKept
<1> QED
  BY <1>3, <1>4

\* A spurious wake-up.
LEMMA SpuriousInv ==
    ASSUME IInv, NEW t \in Threads, WakeSpuriously(t)
    PROVE  IInv'
<1> USE DEF IInv
<1>1. TypeOK'
  BY DEF WakeSpuriously, TypeOK, Sleeping, Waiting
<1>2. RoomWhenWaiting'
  BY DEF WakeSpuriously, RoomWhenWaiting, FreeSlots
<1> QED
  BY <1>1, <1>2, GuardsKept DEF WakeSpuriously

\* The right to a resource moves with the guard.
LEMMA MoveInv ==
    ASSUME IInv, NEW t \in Threads, NEW s \in Slots, NEW r \in Slots, MoveGuard(t, s, r)
    PROVE  IInv' /\ \A y : Borrowers(y)' = Borrowers(y)
<1> USE DEF IInv
<1>1. /\ UNCHANGED <<total, available, mode, woken, calls>>
      /\ mode[t] = "none" /\ guard[t][r] = NoGuard /\ guard[t][s] # NoGuard /\ r # s
  BY DEF MoveGuard, FreeSlots
<1> DEFINE gone == [ref |-> guard[t][s].ref, valid |-> FALSE]
<1>2. guard[t][s] \in [ref : 0..total, valid : BOOLEAN] /\ gone \in [ref : 0..total, valid : BOOLEAN]
  BY DEF TypeOK
<1>3. /\ guard' \in [Threads -> [Slots -> [ref : 0..total, valid : BOOLEAN]]]
      /\ guard'[t][r] = guard[t][s] /\ guard'[t][s] = gone
      /\ \A u \in Threads, x \in Slots : u # t \/ x \notin {s, r} => guard'[u][x] = guard[u][x]
      /\ \A u \in Threads \ {t} : guard'[u] = guard[u]
  <2> DEFINE row == [guard[t] EXCEPT ![r] = guard[t][s], ![s] = gone]
  <2>1. /\ row \in [Slots -> [ref : 0..total, valid : BOOLEAN]]
        /\ row[r] = guard[t][s] /\ row[s] = gone
        /\ \A x \in Slots \ {s, r} : row[x] = guard[t][x]
    BY <1>1, <1>2 DEF TypeOK
  <2>2. guard' = [guard EXCEPT ![t] = row]
    BY DEF MoveGuard
  <2> HIDE DEF row
  <2> QED
    BY <2>1, <2>2 DEF TypeOK
<1>4. TypeOK' /\ RoomWhenWaiting'
  BY <1>1, <1>3 DEF TypeOK, Waiting, RoomWhenWaiting, FreeSlots
<1>5. ~gone.valid /\ ~guard[t][r].valid /\ \A y : gone # [ref |-> y, valid |-> TRUE]
        /\ guard[t][r] # [ref |-> y, valid |-> TRUE]
  BY <1>1 DEF NoGuard
<1> HIDE DEF gone
<1>6. ValidGuardsRefer'
  <2> SUFFICES ASSUME NEW u \in Threads, NEW x \in Slots, guard'[u][x].valid
               PROVE  guard'[u][x].ref \in 1..total
    BY <1>1 DEF ValidGuardsRefer
  <2>1. CASE u = t /\ x = s
    BY <1>3, <1>5, <2>1
  <2>2. CASE u = t /\ x = r
    BY <1>3, <2>2 DEF ValidGuardsRefer
  <2>3. CASE u # t \/ x \notin {s, r}
    BY <1>3, <2>3 DEF ValidGuardsRefer
  <2> QED
    BY <2>1, <2>2, <2>3
<1>7. \A y : /\ ~Holds(t, s, y)' /\ ~Holds(t, r, y)
             /\ Holds(t, r, y)' <=> Holds(t, s, y)
             /\ \A u \in Threads, x \in Slots : u # t \/ x \notin {s, r} =>
                  (Holds(u, x, y)' <=> Holds(u, x, y))
  BY <1>3, <1>5 DEF Holds
<1>8. Exclusive' /\ NothingLost'
  <2>1. \A y : IsAvailable(y)' <=> IsAvailable(y)
    BY <1>1 DEF IsAvailable
  <2>2. ASSUME NEW y \in 1..total, NEW u \in Threads, NEW v \in Threads,
               NEW x \in Slots, NEW z \in Slots, Holds(u, x, y)'
        PROVE  /\ Holds(v, z, y)' => u = v /\ x = z
               /\ ~IsAvailable(y)'
    <3>1. CASE u = t /\ x = r
      BY <1>7, <2>1, <2>2, <3>1 DEF Exclusive
    <3>2. CASE u # t \/ x \notin {s, r}
      BY <1>7, <2>1, <2>2, <3>2 DEF Exclusive
    <3> QED
      BY <1>7, <2>2, <3>1, <3>2
  <2>3. Exclusive'
    BY <1>1, <2>2 DEF Exclusive
  <2>4. ASSUME NEW y \in 1..total PROVE IsAvailable(y)' \/ \E u \in Threads, x \in Slots : Holds(u, x, y)'
    <3>1. CASE IsAvailable(y)
      BY <2>1, <3>1
    <3>2. ASSUME NEW u \in Threads, NEW x \in Slots, Holds(u, x, y)
          PROVE  \E v \in Threads, z \in Slots : Holds(v, z, y)'
      <4>1. CASE u = t /\ x = s
        BY <1>7, <3>2, <4>1
      <4>2. CASE u = t /\ x = r
        BY <1>7, <3>2, <4>2
      <4>3. CASE u # t \/ x \notin {s, r}
        BY <1>7, <3>2, <4>3
      <4> QED
        BY <4>1, <4>2, <4>3
    <3> QED
      BY <3>1, <3>2 DEF NothingLost
  <2> QED
    BY <1>1, <2>3, <2>4 DEF NothingLost
<1>9. \A y : Borrowers(y)' = Borrowers(y)
  <2> SUFFICES ASSUME NEW y, NEW u \in Threads
               PROVE  (\E x \in Slots : Holds(u, x, y)') <=> (\E x \in Slots : Holds(u, x, y))
    BY DEF Borrowers
  <2>1. ASSUME NEW x \in Slots, Holds(u, x, y) PROVE \E z \in Slots : Holds(u, z, y)'
    BY <1>7, <2>1
  <2>2. ASSUME NEW x \in Slots, Holds(u, x, y)' PROVE \E z \in Slots : Holds(u, z, y)
    BY <1>7, <2>2
  <2> QED
    BY <2>1, <2>2
<1> QED
  BY <1>4, <1>6, <1>8, <1>9

\* Destroying a guard: an invalid one changes nothing, a valid one makes its
\* resource available, once.
LEMMA DropInv ==
    ASSUME IInv, NEW t \in Threads, NEW s \in Slots, DropGuard(t, s)
    PROVE  /\ IInv'
           /\ \/ UNCHANGED available /\ \A y \in 1..total : Borrowers(y)' = Borrowers(y)
              \/ \E r \in 1..total :
                   /\ available' = Append(available, r)
                   /\ Borrowers(r) = {t} /\ Borrowers(r)' = {}
                   /\ \A y \in 1..total \ {r} : Borrowers(y)' = Borrowers(y)
<1> USE DEF IInv
<1>1. /\ UNCHANGED <<total, mode, calls>>
      /\ mode[t] = "none" /\ guard[t][s] # NoGuard
      /\ guard' = [guard EXCEPT ![t][s] = NoGuard]
      /\ total \in Nat /\ available \in Seq(1..total)
  BY PoolAssumption DEF DropGuard, TypeOK
<1>2. NoGuard \in [ref : 0..total, valid : BOOLEAN] /\ ~NoGuard.valid
  BY <1>1 DEF NoGuard
<1>3. /\ guard' \in [Threads -> [Slots -> [ref : 0..total, valid : BOOLEAN]]]
      /\ guard'[t][s] = NoGuard
      /\ \A u \in Threads, x \in Slots : u # t \/ x # s => guard'[u][x] = guard[u][x]
      /\ \A u \in Threads \ {t} : guard'[u] = guard[u]
  BY <1>1, <1>2 DEF TypeOK
<1>4. woken' \subseteq Waiting'
  BY <1>1, NotifyKeeps DEF DropGuard, TypeOK, Waiting
<1>5. RoomWhenWaiting'
  <2> SUFFICES ASSUME NEW u \in Threads, mode'[u] # "none"
               PROVE  FreeSlots(u)' # {}
    BY DEF RoomWhenWaiting
  <2>1. FreeSlots(u)' = FreeSlots(u)
    BY <1>1, <1>3 DEF FreeSlots
  <2> QED
    BY <1>1, <2>1 DEF RoomWhenWaiting
<1>6. ValidGuardsRefer'
  BY <1>1, <1>2, <1>3 DEF ValidGuardsRefer
<1>7. \A y : /\ ~Holds(t, s, y)'
             /\ \A u \in Threads, x \in Slots : u # t \/ x # s =>
                  (Holds(u, x, y)' <=> Holds(u, x, y))
  BY <1>2, <1>3 DEF Holds, NoGuard
<1>8. CASE ~(guard[t][s].valid /\ guard[t][s].ref \in 1..total)
  <2>1. UNCHANGED <<available, woken>>
    BY <1>8 DEF DropGuard
  <2>2. TypeOK'
    BY <1>1, <1>3, <1>4, <2>1 DEF TypeOK
  <2>3. \A y \in 1..total : /\ ~Holds(t, s, y)
                            /\ IsAvailable(y)' <=> IsAvailable(y)
    BY <1>8, <2>1 DEF Holds, IsAvailable
  <2>4. \A y \in 1..total, u \in Threads, x \in Slots : Holds(u, x, y)' <=> Holds(u, x, y)
    BY <1>7, <2>3
  <2>5. Exclusive' /\ NothingLost'
    BY <1>1, <2>1, <2>3, <2>4 DEF Exclusive, NothingLost
  <2>6. \A y \in 1..total : Borrowers(y)' = Borrowers(y)
    BY <2>4 DEF Borrowers
  <2> QED
    BY <1>5, <1>6, <2>1, <2>2, <2>5, <2>6
<1>9. CASE guard[t][s].valid /\ guard[t][s].ref \in 1..total
  <2> PICK r \in 1..total : r = guard[t][s].ref
    BY <1>9
  <2>1. available' = Append(available, r)
    BY <1>9 DEF DropGuard
  <2>2. Holds(t, s, r) /\ \A y : Holds(t, s, y) => y = r
    <3>1. guard[t][s] \in [ref : 0..total, valid : BOOLEAN]
      BY DEF TypeOK
    <3>2. guard[t][s].valid = TRUE
      BY <1>9, <3>1
    <3>3. guard[t][s] = [ref |-> r, valid |-> TRUE]
      BY <3>1, <3>2
    <3> QED
      BY <3>3 DEF Holds
  <2>3. /\ Len(available) \in Nat /\ DOMAIN available = 1..Len(available)
        /\ available' \in Seq(1..total) /\ DOMAIN available' = 1..(Len(available) + 1)
        /\ \A i \in 1..Len(available) : available'[i] = available[i]
        /\ available'[Len(available) + 1] = r
    <3> DEFINE S == 1..total
    <3>1. available \in Seq(S) /\ r \in S
      BY <1>1
    <3> HIDE DEF S
    <3> QED
      BY <2>1, <3>1, AppendLast DEF S
  <2>4. TypeOK'
    BY <1>1, <1>3, <1>4, <2>3 DEF TypeOK
  <2>5. \A y : IsAvailable(y)' <=> IsAvailable(y) \/ y = r
    BY <2>3 DEF IsAvailable
  <2>6. ~IsAvailable(r)
    BY <2>2 DEF Exclusive
  <2>7. \A i, j \in DOMAIN available' : available'[i] = available'[j] => i = j
    <3>1. \A i \in 1..Len(available) : available[i] # r
      BY <2>3, <2>6 DEF IsAvailable
    <3> QED
      BY <2>3, <3>1 DEF Exclusive
  <2>8. \A u \in Threads, x \in Slots, y \in 1..total :
          Holds(u, x, y)' <=> Holds(u, x, y) /\ y # r
    <3> SUFFICES ASSUME NEW u \in Threads, NEW x \in Slots, NEW y \in 1..total
                 PROVE  Holds(u, x, y)' <=> Holds(u, x, y) /\ y # r
      OBVIOUS
    <3>1. CASE u = t /\ x = s
      BY <1>7, <2>2, <3>1
    <3>2. CASE u # t \/ x # s
      <4>1. Holds(u, x, y) => y # r
        BY <2>2, <3>2 DEF Exclusive
      <4> QED
        BY <1>7, <3>2, <4>1
    <3> QED
      BY <3>1, <3>2
  <2>9. Exclusive'
    <3>1. ASSUME NEW y \in 1..total, NEW u \in Threads, NEW v \in Threads,
                 NEW x \in Slots, NEW z \in Slots, Holds(u, x, y)'
          PROVE  /\ Holds(v, z, y)' => u = v /\ x = z
                 /\ ~IsAvailable(y)'
      BY <2>5, <2>8, <3>1 DEF Exclusive
    <3> QED
      BY <1>1, <2>7, <3>1 DEF Exclusive
  <2>10. NothingLost'
    <3> SUFFICES ASSUME NEW y \in 1..total
                 PROVE  IsAvailable(y)' \/ \E u \in Threads, x \in Slots : Holds(u, x, y)'
      BY <1>1 DEF NothingLost
    <3> QED
      BY <2>5, <2>8 DEF NothingLost
  <2>11. Borrowers(r) = {t} /\ Borrowers(r)' = {}
    <3>1. \A u \in Threads, x \in Slots : Holds(u, x, r) => u = t
      BY <2>2 DEF Exclusive
    <3>2. \A u \in Threads, x \in Slots : ~Holds(u, x, r)'
      BY <2>8
    <3> QED
      BY <2>2, <3>1, <3>2 DEF Borrowers
  <2>12. \A y \in 1..total \ {r} : Borrowers(y)' = Borrowers(y)
    BY <2>8 DEF Borrowers
  <2> QED
    BY <1>5, <1>6, <2>1, <2>4, <2>9, <2>10, <2>11, <2>12
<1> QED
  BY <1>8, <1>9

-----------------------------------------------------------------------------
(* The theorems. *)

\* Every step, and every stutter, preserves the invariant.
LEMMA Inductive ==
    ASSUME IInv, [Next]_vars
    PROVE  IInv'
<1>1. CASE UNCHANGED vars
  <2>1. TypeOK' /\ RoomWhenWaiting'
    BY <1>1 DEF vars, IInv, TypeOK, Waiting, RoomWhenWaiting, FreeSlots
  <2> QED
    BY <1>1, <2>1, GuardsKept DEF vars, IInv
<1>2. ASSUME NEW t \in Threads, Recheck(t) \/ TimeOut(t)
      PROVE  IInv'
  <2>1. mode[t] # "none"
    BY <1>2 DEF Recheck, TimeOut, IInv, TypeOK, Waiting
  <2> QED
    BY <1>2, <2>1, WaitEndsInv DEF Recheck, TimeOut
<1> QED
  BY <1>1, <1>2, AddInv, AcquireInv, SpuriousInv, DropInv, MoveInv DEF Next, Drop

\* The inductive invariant holds in every reachable state.
THEOREM Invariance == Spec => []IInv
BY InitInv, Inductive, PTL DEF Spec

\* Every variable keeps its type, and only waiting threads are woken.
THEOREM TypeCorrect == Spec => []TypeOK
<1>1. IInv => TypeOK
  BY DEF IInv
<1> QED
  BY <1>1, Invariance, PTL

\* A pooled session is never used by two threads at once.
THEOREM ExclusiveUse == Spec => []Exclusive
<1>1. IInv => Exclusive
  BY DEF IInv
<1> QED
  BY <1>1, Invariance, PTL

\* No timeout, move or overtaken wait loses a resource.
THEOREM AllAccountedFor == Spec => []NothingLost
<1>1. IInv => NothingLost
  BY DEF IInv
<1> QED
  BY <1>1, Invariance, PTL

\* A notification wakes a thread that was asleep, if there is one.
LEMMA NotifyCounts ==
    ASSUME TypeOK, NotifyOne, UNCHANGED mode, Sleeping # {}
    PROVE  Cardinality(woken') = Cardinality(woken) + 1
<1>1. PICK t \in Sleeping : woken' = woken \cup {t}
  BY DEF NotifyOne
<1>2. IsFiniteSet(woken) /\ t \notin woken
  BY PoolAssumption, FS_Subset DEF TypeOK, Waiting, Sleeping
<1> QED
  BY <1>1, <1>2, FS_AddElement

\* Every available resource has a thread on its way, or nobody sleeps.
LEMMA WakeupStep ==
    ASSUME IInv, NoLostWakeup, [Next]_vars
    PROVE  NoLostWakeup'
<1> USE DEF IInv
<1>1. /\ IsFiniteSet(woken) /\ Cardinality(woken) \in Nat /\ Len(available) \in Nat
      /\ \A t \in woken : Cardinality(woken \ {t}) = Cardinality(woken) - 1
      /\ \A t \in Threads \ woken : Cardinality(woken \cup {t}) = Cardinality(woken) + 1
  <2>1. IsFiniteSet(woken)
    BY PoolAssumption, FS_Subset DEF TypeOK, Waiting
  <2> QED
    <3>1. Cardinality(woken) \in Nat /\ Len(available) \in Nat
      BY <2>1, FS_CardinalityType DEF TypeOK
    <3>2. \A t \in woken : Cardinality(woken \ {t}) = Cardinality(woken) - 1
      BY <2>1, FS_RemoveElement
    <3>3. \A t \in Threads \ woken : Cardinality(woken \cup {t}) = Cardinality(woken) + 1
      BY <2>1, FS_AddElement
    <3> QED
      BY <2>1, <3>1, <3>2, <3>3
<1>2. ASSUME NEW t \in Threads, Take(t), available # <<>>
      PROVE  Len(available') = Len(available) - 1
  BY <1>2, HeadTail DEF Take, TypeOK
<1>3. CASE UNCHANGED vars
  BY <1>3 DEF vars, NoLostWakeup, Sleeping, Waiting
<1>4. ASSUME NotifyOne, UNCHANGED mode, NEW x, available' = Append(available, x)
      PROVE  NoLostWakeup'
  <2>1. Len(available') = Len(available) + 1
    BY <1>4 DEF TypeOK
  <2>2. CASE Sleeping = {}
    BY <1>4, <2>2 DEF NotifyOne, NoLostWakeup, Sleeping, Waiting
  <2>3. CASE Sleeping # {}
    BY <1>1, <1>4, <2>1, <2>3, NotifyCounts DEF NoLostWakeup
  <2> QED
    BY <2>2, <2>3
<1>5. CASE AddResource
  BY <1>4, <1>5 DEF AddResource
<1>6. ASSUME NEW t \in Threads, AcquireResource(t)
      PROVE  NoLostWakeup'
  <2>1. CASE available # <<>>
    <3>1. Take(t) /\ UNCHANGED <<mode, woken>>
      BY <1>6, <2>1 DEF AcquireResource
    <3> QED
      BY <1>1, <1>2, <2>1, <3>1 DEF NoLostWakeup, Sleeping, Waiting
  <2>2. CASE available = <<>>
    BY <1>1, <1>6, <2>2 DEF AcquireResource, NoLostWakeup
  <2> QED
    BY <2>1, <2>2
<1>7. ASSUME NEW t \in Threads, WakeSpuriously(t)
      PROVE  NoLostWakeup'
  <2>1. t \in Threads \ woken /\ t \in Sleeping /\ woken' = woken \cup {t}
          /\ UNCHANGED <<available, mode>>
    BY <1>7 DEF WakeSpuriously, Sleeping
  <2> QED
    BY <1>1, <2>1 DEF NoLostWakeup
<1>8. ASSUME NEW t \in Threads, Recheck(t) \/ TimeOut(t)
      PROVE  NoLostWakeup'
  <2>1. /\ woken' = woken \ {t}
        /\ mode' = [mode EXCEPT ![t] = "none"] \/ (mode' = mode /\ available' = <<>>)
    BY <1>8 DEF Recheck, TimeOut
  <2>2. CASE available # <<>>
    <3>1. Take(t) /\ mode' = [mode EXCEPT ![t] = "none"]
      BY <1>8, <2>2 DEF Recheck, TimeOut
    <3>2. Sleeping' \subseteq Sleeping
      BY <2>1, <3>1 DEF Sleeping, Waiting, TypeOK
    <3>3. Cardinality(woken') >= Cardinality(woken) - 1
      <4>1. CASE t \in woken
        BY <1>1, <2>1, <4>1
      <4>2. CASE t \notin woken
        <5>1. woken' = woken
          BY <2>1, <4>2
        <5> QED
          BY <1>1, <5>1
      <4> QED
        BY <4>1, <4>2
    <3>4. Cardinality(woken') \in Nat
      <4>1. IsFiniteSet(woken')
        BY <1>1, <2>1, FS_Subset
      <4> QED
        BY <4>1, FS_CardinalityType
    <3> QED
      BY <1>1, <1>2, <2>2, <3>1, <3>2, <3>3, <3>4 DEF NoLostWakeup
  <2>3. CASE available = <<>>
    <3>1. available' = <<>> /\ IsFiniteSet(woken')
      BY <1>1, <1>8, <2>1, <2>3, FS_Subset DEF Recheck, TimeOut
    <3>2. Cardinality(woken') \in Nat
      BY <3>1, FS_CardinalityType
    <3> QED
      BY <3>1, <3>2 DEF NoLostWakeup
  <2> QED
    BY <2>2, <2>3
<1>9. ASSUME NEW t \in Threads, NEW s \in Slots, NEW r \in Slots, MoveGuard(t, s, r)
      PROVE  NoLostWakeup'
  BY <1>9 DEF MoveGuard, NoLostWakeup, Sleeping, Waiting
<1>10. ASSUME NEW t \in Threads, NEW s \in Slots, DropGuard(t, s)
       PROVE  NoLostWakeup'
  <2>1. CASE UNCHANGED <<available, woken>>
    BY <1>10, <2>1 DEF DropGuard, NoLostWakeup, Sleeping, Waiting
  <2>2. CASE available' = Append(available, guard[t][s].ref) /\ NotifyOne
    BY <1>4, <1>10, <2>2 DEF DropGuard
  <2> QED
    BY <1>10, <2>1, <2>2 DEF DropGuard
<1> QED
  BY <1>3, <1>5, <1>6, <1>7, <1>8, <1>9, <1>10 DEF Next, Drop

\* While threads sleep, no available resource goes without a woken thread.
THEOREM WakeupsKept == Spec => []NoLostWakeup
<1>1. Init => NoLostWakeup
  BY DEF Init, NoLostWakeup, Sleeping, Waiting
<1>2. IInv /\ NoLostWakeup /\ [Next]_vars => NoLostWakeup'
  BY WakeupStep
<1> QED
  BY <1>1, <1>2, Invariance, PTL DEF Spec
-----------------------------------------------------------------------------
(* The refinement of ResourceLending. *)

\* The threads that have each resource, as ResourceLending sees them.
Lent == [r \in 1..total |-> Borrowers(r)]

\* Whatever acquire function takes the first resource, its thread borrows it.
LEMMA TakeBorrows ==
    ASSUME IInv, NEW t \in Threads, FreeSlots(t) # {}, available # <<>>, Take(t), total' = total
    PROVE  Lending!Borrow(t)
<1> PICK r : r = Head(available)
  OBVIOUS
<1>1. /\ r \in 1..total /\ Borrowers(r) = {} /\ Borrowers(r)' = {t}
      /\ \A y \in 1..total \ {r} : Borrowers(y)' = Borrowers(y)
  BY TakeKeeps DEF IInv
<1>2. Lent[r] = {}
  BY <1>1 DEF Lent
<1>3. Lent' = [Lent EXCEPT ![r] = {t}]
  BY <1>1 DEF Lent
<1>4. available' = Tail(available)
  BY DEF Take
<1> QED
  BY <1>2, <1>3, <1>4 DEF Lending!Borrow, Lent

\* A guard that is destroyed returns its thread's resource, or means nothing.
LEMMA DropReturns ==
    ASSUME IInv, NEW t \in Threads, NEW s \in Slots, DropGuard(t, s)
    PROVE  Lending!Return(t) \/ UNCHANGED <<total, available, Lent>>
<1>1. total' = total
  BY DEF DropGuard
<1>2. CASE UNCHANGED available /\ \A y \in 1..total : Borrowers(y)' = Borrowers(y)
  BY <1>1, <1>2 DEF Lent
<1>3. ASSUME NEW r \in 1..total,
             available' = Append(available, r), Borrowers(r) = {t}, Borrowers(r)' = {},
             \A y \in 1..total \ {r} : Borrowers(y)' = Borrowers(y)
      PROVE  Lending!Return(t)
  <2>1. Lent[r] = {t} /\ Lent' = [Lent EXCEPT ![r] = {}]
    BY <1>1, <1>3 DEF Lent
  <2> QED
    BY <1>1, <1>3, <2>1 DEF Lending!Return, Lent
<1> QED
  BY <1>2, <1>3, DropInv

\* The pool lends its resources like a queue: only the thread that has one gives
\* it back, nothing else than an acquire or the end of a valid guard passes it on,
\* and they are lent in the order in which they came back.
THEOREM PoolLends == Spec => ImplementsLending
<1>1. Init => Lending!LendingInit
  BY DEF Init, Lending!LendingInit
<1>2. IInv /\ [Next]_vars => [Lending!LendingNext]_(Lending!lendingVars)
  <2> SUFFICES ASSUME IInv, [Next]_vars
               PROVE  [Lending!LendingNext]_(Lending!lendingVars)
    OBVIOUS
  <2>0. UNCHANGED <<total, available, Lent>> => UNCHANGED Lending!lendingVars
    BY DEF Lent, Lending!lendingVars
  <2>1. UNCHANGED <<total, available, guard>> => UNCHANGED <<total, available, Lent>>
    BY DEF Lent, Borrowers, Holds
  <2>2. CASE UNCHANGED vars
    BY <2>0, <2>1, <2>2 DEF vars
  <2>3. CASE AddResource
    <3>1. total \in Nat /\ total' = total + 1 /\ available' = Append(available, total + 1)
      BY <2>3, PoolAssumption DEF AddResource, IInv, TypeOK
    <3> PICK n : n = total + 1
      OBVIOUS
    <3>2. Borrowers(n)' = {} /\ \A y \in 1..total : Borrowers(y)' = Borrowers(y)
      BY <2>3, AddInv
    <3>3. Lent' = [r \in 1..(total + 1) |-> IF r \in 1..total THEN Lent[r] ELSE {}]
      BY <3>1, <3>2 DEF Lent
    <3> QED
      BY <3>1, <3>3 DEF Lending!LendingNext, Lending!Add, Lent
  <2>4. ASSUME NEW t \in Threads, AcquireResource(t) \/ Recheck(t) \/ TimeOut(t)
        PROVE  Lending!Borrow(t) \/ UNCHANGED <<total, available, guard>>
    <3>1. FreeSlots(t) # {}
      BY <2>4 DEF AcquireResource, Recheck, TimeOut, IInv, TypeOK, RoomWhenWaiting, Waiting
    <3>2. total' = total /\ ((available # <<>> /\ Take(t)) \/ UNCHANGED <<available, guard>>)
      BY <2>4 DEF AcquireResource, Recheck, TimeOut
    <3> QED
      BY <3>1, <3>2, TakeBorrows
  <2>5. ASSUME NEW t \in Threads, WakeSpuriously(t) PROVE UNCHANGED <<total, available, guard>>
    BY <2>5 DEF WakeSpuriously
  <2>6. ASSUME NEW t \in Threads, NEW s \in Slots, NEW r \in Slots, MoveGuard(t, s, r)
        PROVE  UNCHANGED <<total, available, Lent>>
    <3>1. UNCHANGED <<total, available>> /\ \A y : Borrowers(y)' = Borrowers(y)
      BY <2>6, MoveInv DEF MoveGuard
    <3> QED
      BY <3>1 DEF Lent
  <2> QED
    BY <2>0, <2>1, <2>2, <2>3, <2>4, <2>5, <2>6, DropReturns DEF Next, Drop, Lending!LendingNext
<1> QED
  BY <1>1, <1>2, Invariance, PTL DEF Spec, ImplementsLending, Lending!LendingSpec
=============================================================================
