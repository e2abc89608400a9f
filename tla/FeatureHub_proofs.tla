------------------------- MODULE FeatureHub_proofs -------------------------
(***************************************************************************)
(* Theorems about FeatureHub, for any threads, ids, features, similarities *)
(* and configurations.  The feature pointer and the results lent to the    *)
(* threads are independent of one another and of how a search ranks the    *)
(* rows, so each action disturbs one conjunct of the invariant at most.    *)
(* That a search is exact follows from the order of the rows it returns:   *)
(* those that pass the threshold come first.                               *)
(***************************************************************************)
EXTENDS FeatureHub, FiniteSetTheorems, TLAPS

\* The inductive invariant.
IInv ==
    /\ TypeOK
    /\ borrowed \in [Threads -> [Lent -> Features \cup {Nothing}]]
    /\ PointerCoherent
    /\ BorrowedResultsStay

Tables(T) == DOMAIN T \subseteq Ids /\ \A i \in DOMAIN T : T[i] \in Features

\* The initial states: no hub, nothing lent.
LEMMA InitInv == Init => IInv
<1> SUFFICES ASSUME Init PROVE IInv
  OBVIOUS
<1>1. TypeOK
  BY HubAssumption DEF Init, TypeOK, NoRows
<1>2. borrowed \in [Threads -> [Lent -> Features \cup {Nothing}]] /\ PointerCoherent
  BY DEF Init, PointerCoherent
<1>3. BorrowedResultsStay
  BY DEF Init, BorrowedResultsStay
<1> QED
  BY <1>1, <1>2, <1>3 DEF IInv

-----------------------------------------------------------------------------
(* Actions of the hub, which leave the locals of the C API alone. *)

\* What is lent stays when no thread's locals change.
LEMMA LocalsKept ==
    ASSUME IInv, UNCHANGED locals
    PROVE  /\ BorrowedResultsStay'
           /\ borrowed' \in [Threads -> [Lent -> Features \cup {Nothing}]]
           /\ pc' \in [Threads -> {"idle", "search", "deliver"}]
           /\ query' \in [Threads -> Features \cup {Nothing}]
           /\ answer' \in [Threads -> Features \cup {Nothing}]
           /\ cell' \in [Threads -> [Lent -> Features \cup {Nothing}]]
BY DEF IInv, TypeOK, BorrowedResultsStay, locals, CellOf

\* Writing rows keeps both tables well-typed.
LEMMA SetRowsTyped ==
    ASSUME IInv, NEW rows, Tables(rows), SetRows(rows)
    PROVE  Tables(memory') /\ Tables(file')
BY DEF IInv, TypeOK, SetRows, Tables

\* A changed table leaves the rest of the hub, the caches and the locals alone.
LEMMA TableInv ==
    ASSUME IInv, Tables(memory'), Tables(file'),
           UNCHANGED <<enabled, manual, threshold, open, caches, locals>>
    PROVE  IInv'
<1>1. TypeOK'
  BY LocalsKept DEF IInv, TypeOK, caches, Tables
<1>2. PointerCoherent'
  BY DEF IInv, PointerCoherent, caches
<1> QED
  BY <1>1, <1>2, LocalsKept DEF IInv

\* Rows are features.
LEMMA RowsTyped == IInv => Tables(Rows)
BY DEF IInv, TypeOK, Rows, Tables

\* Inserting and updating a row.
LEMMA ChangeInv ==
    ASSUME IInv, NEW id \in Ids, NEW f \in Features,
           FaceFeatureInsert(id, f) \/ FaceFeatureUpdate(id, f)
    PROVE  IInv'
<1>1. CASE FaceFeatureInsert(id, f)
  <2>1. Tables([i \in DOMAIN Rows \cup {id} |-> IF i = id THEN f ELSE Rows[i]])
    BY RowsTyped DEF Tables
  <2> QED
    BY <1>1, <2>1, SetRowsTyped, TableInv DEF FaceFeatureInsert
<1>2. CASE FaceFeatureUpdate(id, f)
  <2>1. Tables([Rows EXCEPT ![id] = f])
    BY RowsTyped DEF Tables
  <2> QED
    BY <1>2, <2>1, SetRowsTyped, TableInv DEF FaceFeatureUpdate
<1> QED
  BY <1>1, <1>2

\* Removing a row.
LEMMA RemoveInv ==
    ASSUME IInv, NEW id \in Ids, FaceFeatureRemove(id)
    PROVE  IInv'
<1>1. Tables([i \in DOMAIN Rows \ {id} |-> Rows[i]])
  BY RowsTyped DEF Tables
<1> QED
  BY <1>1, SetRowsTyped, TableInv DEF FaceFeatureRemove

\* Enabling and disabling the hub, and setting its threshold.
LEMMA SwitchInv ==
    ASSUME IInv,
           \/ \E c \in Configs : EnableHub(c)
           \/ DisableHub
           \/ \E value \in Thresholds : SetRecognitionThreshold(value)
    PROVE  IInv'
<1>1. ASSUME NEW c \in Configs, EnableHub(c) PROVE IInv'
  <2>1. UNCHANGED <<memory, file, locals>> /\ ~enabled
    BY <1>1 DEF EnableHub
  <2>2. CASE UNCHANGED <<enabled, manual, threshold, open, caches>>
    BY <2>1, <2>2, TableInv DEF IInv, TypeOK, Tables
  <2>3. CASE /\ open' = IF c.file THEN "file" ELSE "memory"
             /\ manual' = c.manual /\ threshold' = c.threshold
             /\ enabled' = TRUE /\ ClearCaches("null")
    <3>1. threshold' \in Thresholds /\ manual' \in BOOLEAN
      BY <2>3, HubAssumption
    <3>2. TypeOK'
      BY <2>1, <2>3, <3>1, LocalsKept DEF IInv, TypeOK, ClearCaches
    <3>3. PointerCoherent'
      BY <2>3 DEF PointerCoherent, ClearCaches
    <3> QED
      BY <2>1, <3>2, <3>3, LocalsKept DEF IInv
  <2> QED
    BY <1>1, <2>2, <2>3 DEF EnableHub
<1>2. CASE DisableHub
  <2>1. UNCHANGED <<file, locals>> /\ enabled' = FALSE /\ manual' = FALSE /\ threshold' = Default
        /\ open' = "none" /\ memory' = NoRows /\ ClearCaches("absent")
    BY <1>2 DEF DisableHub
  <2>2. TypeOK'
    BY <2>1, HubAssumption, LocalsKept DEF IInv, TypeOK, ClearCaches, NoRows
  <2>3. PointerCoherent'
    BY <2>1 DEF PointerCoherent, ClearCaches
  <2> QED
    BY <2>1, <2>2, <2>3, LocalsKept DEF IInv
<1>3. ASSUME NEW value \in Thresholds, SetRecognitionThreshold(value) PROVE IInv'
  <2>1. TypeOK'
    BY <1>3, LocalsKept DEF IInv, TypeOK, SetRecognitionThreshold, caches
  <2>2. PointerCoherent'
    BY <1>3 DEF IInv, PointerCoherent, SetRecognitionThreshold, caches
  <2> QED
    BY <1>3, <2>1, <2>2, LocalsKept DEF IInv, SetRecognitionThreshold
<1> QED
  BY <1>1, <1>2, <1>3

-----------------------------------------------------------------------------
(* Searches and getters of the C++ class. *)

\* A search moves the pointer to the feature it found, or to none.
LEMMA SearchKeeps ==
    ASSUME IInv, NEW q, NEW returnFeature \in BOOLEAN, NEW found \in Features \cup {Nothing},
           SearchFaceFeatureV2(q, returnFeature, found), UNCHANGED hub
    PROVE  /\ PointerCoherent'
           /\ searchCache' \in Features \cup {Nothing} /\ getterCache' \in Features \cup {Nothing}
           /\ pointer' \in {"absent", "null", "search", "getter"}
<1>1. UNCHANGED <<enabled, getterCache>> /\ (found # Nothing => enabled)
  BY DEF SearchFaceFeatureV2, hub
<1>2. pointer = "absent" => ~enabled
  BY DEF IInv, PointerCoherent
<1>3. CASE found # Nothing /\ returnFeature
  <2>1. searchCache' = found /\ pointer' = "search" /\ retrieved' = found
    BY <1>1, <1>2, <1>3 DEF SearchFaceFeatureV2
  <2> QED
    BY <1>1, <1>3, <2>1 DEF PointerCoherent, IInv, TypeOK
<1>4. CASE ~(found # Nothing /\ returnFeature)
  <2>1. /\ searchCache' = Nothing /\ retrieved' = Nothing
        /\ pointer' = IF pointer = "absent" THEN "absent" ELSE "null"
    BY <1>4 DEF SearchFaceFeatureV2, InvalidateFaceFeaturePointer
  <2> QED
    BY <1>1, <1>2, <2>1 DEF PointerCoherent, IInv, TypeOK
<1> QED
  BY <1>3, <1>4

\* The C++ search.
LEMMA SearchInv ==
    ASSUME IInv, NEW q \in Features, NEW returnFeature \in BOOLEAN, SearchFaceFeature(q, returnFeature)
    PROVE  IInv'
<1>1. PICK found \in Features \cup {Nothing} : SearchFaceFeatureV2(q, returnFeature, found)
  BY DEF SearchFaceFeature
<1>2. UNCHANGED <<hub, locals>>
  BY DEF SearchFaceFeature
<1>3. TypeOK'
  BY <1>1, <1>2, SearchKeeps, LocalsKept DEF IInv, TypeOK, hub
<1> QED
  BY <1>1, <1>2, <1>3, SearchKeeps, LocalsKept DEF IInv

\* What reading a row finds is a feature or nothing, and nothing if the hub is disabled.
LEMMA FoundTyped ==
    ASSUME IInv, NEW id
    PROVE  Found(id) \subseteq Features \cup {Nothing} /\ (~enabled => Found(id) = {Nothing})
BY RowsTyped DEF Found, Tables

\* The getter moves the pointer likewise.
LEMMA GetterInv ==
    ASSUME IInv, NEW id \in Ids, GetFaceFeature(id)
    PROVE  IInv'
<1>1. PICK found \in Found(id) :
        /\ getterCache' = found
        /\ pointer' = IF found = Nothing \/ pointer = "absent"
                      THEN InvalidateFaceFeaturePointer(pointer) ELSE "getter"
        /\ retrieved' = found
  BY DEF GetFaceFeature
<1>2. UNCHANGED <<searchCache, hub, locals>>
  BY DEF GetFaceFeature
<1>3. found \in Features \cup {Nothing} /\ (~enabled => found = Nothing)
  BY FoundTyped
<1>4. pointer = "absent" => ~enabled
  BY DEF IInv, PointerCoherent
<1>5. PointerCoherent' /\ pointer' \in {"absent", "null", "search", "getter"}
  BY <1>1, <1>2, <1>3, <1>4 DEF IInv, TypeOK, PointerCoherent, InvalidateFaceFeaturePointer, hub
<1>6. TypeOK'
  BY <1>1, <1>2, <1>3, <1>5, LocalsKept DEF IInv, TypeOK, hub
<1> QED
  BY <1>2, <1>5, <1>6, LocalsKept DEF IInv

-----------------------------------------------------------------------------
(* The C API. *)

\* A step that leaves hub and pointer alone keeps what is said of them.
LEMMA HubKept ==
    ASSUME IInv, UNCHANGED <<hub, caches>>,
           pc' \in [Threads -> {"idle", "search", "deliver"}],
           query' \in [Threads -> Features \cup {Nothing}],
           answer' \in [Threads -> Features \cup {Nothing}],
           cell' \in [Threads -> [Lent -> Features \cup {Nothing}]]
    PROVE  TypeOK' /\ PointerCoherent'
<1>1. TypeOK'
  BY DEF IInv, TypeOK, hub, caches
<1> QED
  BY <1>1 DEF IInv, PointerCoherent, hub, caches

\* Storing a result of one kind for a thread, in its own cell, and lending it
\* keeps everybody's results.
LEMMA LendKeeps ==
    ASSUME IInv, NEW t \in Threads, NEW k \in Lent, NEW f \in Features \cup {Nothing},
           cell' = [cell EXCEPT ![CellOf(t)][k] = f],
           borrowed' = [borrowed EXCEPT ![t][k] = f]
    PROVE  /\ cell' \in [Threads -> [Lent -> Features \cup {Nothing}]]
           /\ borrowed' \in [Threads -> [Lent -> Features \cup {Nothing}]]
           /\ BorrowedResultsStay'
<1>1. /\ cell \in [Threads -> [Lent -> Features \cup {Nothing}]]
      /\ borrowed \in [Threads -> [Lent -> Features \cup {Nothing}]]
  BY DEF IInv, TypeOK
<1>2. /\ cell' \in [Threads -> [Lent -> Features \cup {Nothing}]]
      /\ borrowed' \in [Threads -> [Lent -> Features \cup {Nothing}]]
  BY <1>1 DEF CellOf
<1>3. ASSUME NEW u \in Threads, NEW j \in Lent, borrowed'[u][j] # Nothing
      PROVE  cell'[u][j] = borrowed'[u][j]
  <2>1. CASE u = t /\ j = k
    BY <1>1, <2>1 DEF CellOf
  <2>2. CASE ~(u = t /\ j = k)
    <3>1. cell'[u][j] = cell[u][j] /\ borrowed'[u][j] = borrowed[u][j]
      BY <1>1, <2>2 DEF CellOf
    <3> QED
      BY <1>3, <3>1 DEF IInv, BorrowedResultsStay, CellOf
  <2> QED
    BY <2>1, <2>2
<1> QED
  BY <1>2, <1>3 DEF BorrowedResultsStay, CellOf

\* The three steps of a search and the identity getter.
LEMMA ApiInv ==
    ASSUME IInv, NEW t \in Threads,
           \/ \E q \in Features \cup {Nothing} : BeginSearch(t, q)
           \/ CallHub(t)
           \/ DeliverSearch(t)
           \/ \E id \in Ids : HFFeatureHubGetFaceIdentity(t, id)
    PROVE  IInv'
<1>1. ASSUME NEW q \in Features \cup {Nothing}, BeginSearch(t, q) PROVE IInv'
  <2>1. "search" \in Lent
    BY DEF Lent
  <2>2. pc' \in [Threads -> {"idle", "search", "deliver"}]
        /\ query' \in [Threads -> Features \cup {Nothing}]
        /\ answer' \in [Threads -> Features \cup {Nothing}]
    BY <1>1 DEF IInv, TypeOK, BeginSearch
  <2> QED
    BY <1>1, <2>1, <2>2, LendKeeps, HubKept DEF IInv, BeginSearch
<1>2. CASE CallHub(t)
  <2>1. PICK found \in Features \cup {Nothing} :
          SearchFaceFeatureV2(query[t], TRUE, found) /\ answer' = [answer EXCEPT ![t] = found]
    BY <1>2 DEF CallHub
  <2>2. UNCHANGED <<hub, cell, borrowed>>
    BY <1>2 DEF CallHub
  <2>3. pc' \in [Threads -> {"idle", "search", "deliver"}]
        /\ query' \in [Threads -> Features \cup {Nothing}]
        /\ answer' \in [Threads -> Features \cup {Nothing}]
    BY <1>2, <2>1 DEF IInv, TypeOK, CallHub
  <2>4. TypeOK'
    BY <2>1, <2>2, <2>3, SearchKeeps DEF IInv, TypeOK, hub
  <2>5. BorrowedResultsStay'
    BY <2>2 DEF IInv, BorrowedResultsStay, CellOf
  <2> QED
    BY <2>1, <2>2, <2>4, <2>5, SearchKeeps DEF IInv
<1>3. CASE DeliverSearch(t)
  <2>1. pc' \in [Threads -> {"idle", "search", "deliver"}]
        /\ query' \in [Threads -> Features \cup {Nothing}]
        /\ answer' \in [Threads -> Features \cup {Nothing}]
    BY <1>3 DEF IInv, TypeOK, DeliverSearch
  <2>2. UNCHANGED <<hub, caches>>
    BY <1>3 DEF DeliverSearch
  <2>3. CASE answer[t] = Nothing
    BY <1>3, <2>1, <2>2, <2>3, HubKept DEF IInv, TypeOK, BorrowedResultsStay, DeliverSearch, CellOf
  <2>4. CASE answer[t] # Nothing
    <3>1. "search" \in Lent /\ answer[t] \in Features \cup {Nothing}
      BY DEF Lent, IInv, TypeOK
    <3>2. /\ cell' = [cell EXCEPT ![CellOf(t)]["search"] = answer[t]]
          /\ borrowed' = [borrowed EXCEPT ![t]["search"] = answer[t]]
      BY <1>3, <2>4 DEF DeliverSearch
    <3> QED
      BY <2>1, <2>2, <3>1, <3>2, LendKeeps, HubKept DEF IInv
  <2> QED
    BY <2>3, <2>4
<1>4. ASSUME NEW id \in Ids, HFFeatureHubGetFaceIdentity(t, id) PROVE IInv'
  <2>1. PICK found \in Found(id) :
          /\ cell' = [cell EXCEPT ![CellOf(t)]["identity"] = found]
          /\ borrowed' = [borrowed EXCEPT ![t]["identity"] = found]
    BY <1>4 DEF HFFeatureHubGetFaceIdentity
  <2>2. "identity" \in Lent /\ found \in Features \cup {Nothing}
    BY FoundTyped DEF Lent
  <2>3. UNCHANGED <<hub, caches, pc, query, answer>>
    BY <1>4 DEF HFFeatureHubGetFaceIdentity
  <2> QED
    BY <2>1, <2>2, <2>3, LendKeeps, HubKept DEF IInv, TypeOK
<1> QED
  BY <1>1, <1>2, <1>3, <1>4

-----------------------------------------------------------------------------
(* The theorems. *)

\* Every step of the hub keeps the invariant.
LEMMA Inductive == IInv /\ [Next]_vars => IInv'
<1> SUFFICES ASSUME IInv, [Next]_vars PROVE IInv'
  OBVIOUS
<1>1. CASE UNCHANGED vars
  <2>1. UNCHANGED <<enabled, manual, threshold, open, memory, file, caches, locals>>
    BY <1>1 DEF vars, caches, locals
  <2> QED
    BY <2>1, TableInv DEF IInv, TypeOK, Tables
<1>2. CASE Next
  <2>1. CASE \/ \E c \in Configs : EnableHub(c)
             \/ DisableHub
             \/ \E value \in Thresholds : SetRecognitionThreshold(value)
    BY <2>1, SwitchInv
  <2>2. ASSUME NEW id \in Ids, NEW f \in Features, FaceFeatureInsert(id, f) \/ FaceFeatureUpdate(id, f)
        PROVE  IInv'
    BY <2>2, ChangeInv
  <2>3. ASSUME NEW id \in Ids, FaceFeatureRemove(id) \/ GetFaceFeature(id)
        PROVE  IInv'
    BY <2>3, RemoveInv, GetterInv
  <2>4. ASSUME NEW q \in Features, NEW returnFeature \in BOOLEAN, SearchFaceFeature(q, returnFeature)
        PROVE  IInv'
    BY <2>4, SearchInv
  <2>5. ASSUME NEW t \in Threads,
               \/ \E q \in Features \cup {Nothing} : BeginSearch(t, q)
               \/ CallHub(t) \/ DeliverSearch(t)
               \/ \E id \in Ids : HFFeatureHubGetFaceIdentity(t, id)
        PROVE  IInv'
    BY <2>5, ApiInv
  <2> QED
    BY <1>2, <2>1, <2>2, <2>3, <2>4, <2>5 DEF Next
<1> QED
  BY <1>1, <1>2

\* The invariant holds in every reachable state.
THEOREM Invariance == Spec => []IInv
BY InitInv, Inductive, PTL DEF Spec

\* Every variable of the hub keeps its type, and an enabled hub always has its
\* database open (EnableHub, DisableHub).
THEOREM TypeCorrect == Spec => []TypeOK
<1>1. IInv => TypeOK
  BY DEF IInv
<1> QED
  BY <1>1, Invariance, PTL

\* The entity that search and getter share (GetFaceFeaturePtrCache) never shows
\* the feature of an earlier call, however failing searches, getters and a hub
\* that is disabled and enabled alternate.
THEOREM PointerNeverLags == Spec => []PointerCoherent
<1>1. IInv => PointerCoherent
  BY DEF IInv
<1> QED
  BY <1>1, Invariance, PTL

\* What HFFeatureHubFaceSearchV2 and HFFeatureHubGetFaceIdentity lend a thread
\* stays until that thread's next call, for any number of threads.
THEOREM LentResultsStay == Spec => []BorrowedResultsStay
<1>1. IInv => BorrowedResultsStay
  BY DEF IInv
<1> QED
  BY <1>1, Invariance, PTL

-----------------------------------------------------------------------------
(* Searches are exact. *)

\* The tables are finite: a row is added at a time.
FiniteTables == IsFiniteSet(DOMAIN memory) /\ IsFiniteSet(DOMAIN file)

\* Writing finitely many rows keeps both tables finite.
LEMMA SetRowsFinite ==
    ASSUME FiniteTables, NEW rows, IsFiniteSet(DOMAIN rows), SetRows(rows)
    PROVE  FiniteTables'
BY DEF FiniteTables, SetRows

\* Every step keeps the tables finite.
LEMMA FiniteStep == FiniteTables /\ [Next]_vars => FiniteTables'
<1> SUFFICES ASSUME FiniteTables, [Next]_vars PROVE FiniteTables'
  OBVIOUS
<1>1. CASE UNCHANGED <<memory, file>>
  BY <1>1 DEF FiniteTables
<1>2. IsFiniteSet(DOMAIN Rows)
  BY DEF FiniteTables, Rows
<1>3. ASSUME NEW id \in Ids, NEW f \in Features, FaceFeatureInsert(id, f) PROVE FiniteTables'
  <2>1. IsFiniteSet(DOMAIN Rows \cup {id})
    BY <1>2, FS_AddElement
  <2> QED
    BY <1>3, <2>1, SetRowsFinite DEF FaceFeatureInsert
<1>4. ASSUME NEW id \in Ids, NEW f \in Features, FaceFeatureUpdate(id, f) PROVE FiniteTables'
  <2>1. DOMAIN [Rows EXCEPT ![id] = f] = DOMAIN Rows
    OBVIOUS
  <2> QED
    BY <1>2, <1>4, <2>1, SetRowsFinite DEF FaceFeatureUpdate
<1>5. ASSUME NEW id \in Ids, FaceFeatureRemove(id) PROVE FiniteTables'
  <2>1. IsFiniteSet(DOMAIN Rows \ {id})
    BY <1>2, FS_RemoveElement
  <2> QED
    BY <1>5, <2>1, SetRowsFinite DEF FaceFeatureRemove
<1>6. CASE DisableHub
  <2>1. DOMAIN memory' = {} /\ UNCHANGED file
    BY <1>6 DEF DisableHub, NoRows
  <2> QED
    BY <2>1, FS_EmptySet DEF FiniteTables
<1>7. ASSUME NEW t \in Threads,
             \/ \E q \in Features \cup {Nothing} : BeginSearch(t, q)
             \/ CallHub(t) \/ DeliverSearch(t)
             \/ \E id \in Ids : HFFeatureHubGetFaceIdentity(t, id)
      PROVE  UNCHANGED <<memory, file>>
  BY <1>7 DEF BeginSearch, CallHub, DeliverSearch, HFFeatureHubGetFaceIdentity, hub
<1>8. CASE \/ \E c \in Configs : EnableHub(c)
           \/ \E value \in Thresholds : SetRecognitionThreshold(value)
           \/ \E id \in Ids : GetFaceFeature(id)
           \/ \E q \in Features, returnFeature \in BOOLEAN : SearchFaceFeature(q, returnFeature)
  BY <1>1, <1>8 DEF EnableHub, SetRecognitionThreshold, GetFaceFeature, SearchFaceFeature, hub
<1> QED
  BY <1>1, <1>3, <1>4, <1>5, <1>6, <1>7, <1>8 DEF Next, vars

\* The places that stay, if with every place all before it stay, are the first m.
LEMMA Prefix ==
    ASSUME NEW n \in Nat, NEW kept \in SUBSET (1..n),
           \A i \in kept : 1..i \subseteq kept
    PROVE  /\ Cardinality(kept) \in 0..n
           /\ kept = 1..Cardinality(kept)
           /\ \A i \in 1..Cardinality(kept) : Place(kept, i) = i
<1> DEFINE m == Cardinality(kept)
<1>1. IsFiniteSet(1..n) /\ Cardinality(1..n) = n
  BY FS_Interval
<1>2. IsFiniteSet(kept) /\ m \in Nat /\ m <= n
  BY <1>1, FS_Subset, FS_CardinalityType
<1>3. \A i \in kept : i \in 1..m
  <2> SUFFICES ASSUME NEW i \in kept PROVE i \in 1..m
    OBVIOUS
  <2>1. Cardinality(1..i) = i /\ 1..i \in SUBSET kept
    BY FS_Interval
  <2>2. Cardinality(1..i) <= m
    BY <1>2, <2>1, FS_Subset
  <2> QED
    BY <1>2, <2>1, <2>2
<1>4. kept = 1..m
  <2>1. IsFiniteSet(1..m) /\ Cardinality(1..m) = m
    BY <1>2, FS_Interval
  <2>2. kept \in SUBSET (1..m)
    BY <1>3
  <2>3. kept \in SUBSET (1..m) /\ IsFiniteSet(1..m) /\ Cardinality(kept) = Cardinality(1..m)
    BY <2>1, <2>2
  <2> HIDE DEF m
  <2> QED
    BY <2>3, FS_Subset
<1>5. ASSUME NEW i \in 1..m PROVE Place(kept, i) = i
  <2>1. ASSUME NEW k \in kept PROVE Cardinality({j \in kept : j <= k}) = k
    <3>0. 1..k \subseteq kept /\ kept \subseteq 1..n /\ k \in 1..n
      BY <2>1
    <3>1. {j \in kept : j <= k} = 1..k
      <4>1. \A j \in 1..k : j \in kept /\ j <= k
        BY <3>0
      <4>2. \A j \in kept : j <= k => j \in 1..k
        BY <3>0
      <4> QED
        BY <4>1, <4>2
    <3>2. Cardinality(1..k) = k
      BY FS_Interval
    <3> QED
      BY <3>1, <3>2
  <2>2. i \in kept
    BY <1>4, <1>5
  <2> QED
    BY <2>1, <2>2 DEF Place
<1> HIDE DEF m
<1>6. m \in 0..n
  BY <1>2
<1> QED
  BY <1>4, <1>5, <1>6 DEF m

\* What a search yields: the first of the nearest rows, as far as they pass.
LEMMA NearestPass ==
    ASSUME IInv, FiniteTables, NEW q \in Features, NEW k \in Nat, NEW least \in Int,
           NEW s \in SearchSimilarVectors(q, k, least)
    PROVE  \E near \in Nearest(q, k), m \in Nat :
             /\ s = [i \in 1..m |-> near[i]]
             /\ DOMAIN near = 1..AtMost(k, Cardinality(DOMAIN Rows))
             /\ m <= AtMost(k, Cardinality(DOMAIN Rows))
             /\ \A i \in DOMAIN near : Score(q, near[i]) >= least <=> i <= m
<1> DEFINE n == AtMost(k, Cardinality(DOMAIN Rows))
<1>1. n \in Nat
  BY FS_CardinalityType DEF FiniteTables, Rows, AtMost
<1>2. PICK near \in Nearest(q, k) :
        s = Sublist(near, {i \in DOMAIN near : Score(q, near[i]) >= least})
  BY DEF SearchSimilarVectors
<1> DEFINE kept == {i \in DOMAIN near : Score(q, near[i]) >= least}
           m == Cardinality(kept)
<1> HIDE DEF n
<1>3. /\ near \in [1..n -> DOMAIN Rows]
      /\ \A i, j \in DOMAIN near : i < j => Score(q, near[i]) >= Score(q, near[j])
  BY DEF Nearest, Lists, n
<1>4. \A i \in DOMAIN near : Score(q, near[i]) \in Int
  BY <1>3, RowsTyped, HubAssumption DEF Score, Tables
<1>5. kept \in SUBSET (1..n)
  BY <1>3
<1>6. ASSUME NEW i \in kept, NEW j \in 1..i PROVE j \in kept
  <2>1. i \in 1..n /\ j \in 1..n /\ j \in DOMAIN near
    BY <1>1, <1>3
  <2> QED
    BY <1>3, <1>4, <2>1
<1>7. m \in 0..n /\ kept = 1..m /\ \A i \in 1..m : Place(kept, i) = i
  <2> HIDE DEF kept
  <2> QED
    BY <1>1, <1>5, <1>6, Prefix
<1>8. s = [i \in 1..m |-> near[i]]
  <2>1. s = Sublist(near, kept)
    BY <1>2
  <2> HIDE DEF kept, m
  <2> QED
    BY <1>7, <2>1 DEF Sublist, m
<1>9. \A i \in DOMAIN near : Score(q, near[i]) >= least <=> i <= m
  <2>1. \A i \in DOMAIN near : i \in kept <=> i <= m
    <3> HIDE DEF kept, m
    <3> QED
      BY <1>1, <1>3, <1>7
  <2> QED
    BY <2>1
<1>10. m \in Nat /\ m <= n /\ DOMAIN near = 1..n
  <2> HIDE DEF kept, m
  <2> QED
    BY <1>1, <1>3, <1>7
<1> HIDE DEF m, kept
<1> QED
  BY <1>8, <1>9, <1>10 DEF n

\* If a row is missing from the nearest, there are as many as were asked for.
LEMMA NearestFull ==
    ASSUME FiniteTables, NEW q, NEW k \in Nat, NEW near \in Nearest(q, k),
           NEW id \in DOMAIN Rows, \A i \in DOMAIN near : near[i] # id
    PROVE  AtMost(k, Cardinality(DOMAIN Rows)) = k
<1> DEFINE D == DOMAIN Rows
           c == Cardinality(D)
           n == AtMost(k, c)
<1>1. IsFiniteSet(D) /\ c \in Nat
  BY FS_CardinalityType DEF FiniteTables, Rows
<1>2. near \in [1..n -> D] /\ \A i, j \in 1..n : i # j => near[i] # near[j]
  BY DEF Nearest, Lists
<1> SUFFICES ASSUME n # k PROVE FALSE
  OBVIOUS
<1>3. n = c
  BY DEF AtMost
<1>4. IsFiniteSet(D \ {id}) /\ Cardinality(D \ {id}) = c - 1
  BY <1>1, FS_RemoveElement
<1> DEFINE others == D \ {id}
<1> HIDE DEF D, c, n
<1>5. near \in [1..c -> others]
  BY <1>2, <1>3
<1>6. IsFiniteSet(1..c) /\ Cardinality(1..c) = c
  BY <1>1, FS_Interval
<1>7. \E i, j \in 1..c : i # j /\ near[i] = near[j]
  <2>1. IsFiniteSet(others) /\ Cardinality(others) < Cardinality(1..c)
    BY <1>1, <1>4, <1>6
  <2> HIDE DEF others
  <2> QED
    BY <1>5, <1>6, <2>1, FS_PigeonHole
<1> QED
  BY <1>2, <1>3, <1>7

\* Every search is exact while the tables are finite.
LEMMA Exact == IInv /\ FiniteTables => SearchIsExact
<1> SUFFICES ASSUME IInv, FiniteTables, NEW q \in Features, NEW k \in 1..MaxTopK, NEW least \in Thresholds,
                    NEW s \in SearchSimilarVectors(q, k, least)
             PROVE  LET ids == {s[i] : i \in DOMAIN s}
                    IN /\ \A i \in DOMAIN s : Score(q, s[i]) >= least
                       /\ \A i, j \in DOMAIN s : i < j => Score(q, s[i]) >= Score(q, s[j])
                       /\ \A id \in DOMAIN Rows \ ids :
                             Score(q, id) >= least =>
                                 Len(s) = k /\ \A i \in DOMAIN s : Score(q, s[i]) >= Score(q, id)
  BY DEF SearchIsExact
<1> DEFINE n == AtMost(k, Cardinality(DOMAIN Rows))
<1>1. k \in Nat /\ least \in Int
  BY HubAssumption
<1>2. PICK near \in Nearest(q, k), m \in Nat :
        /\ s = [i \in 1..m |-> near[i]]
        /\ DOMAIN near = 1..n
        /\ m <= n
        /\ \A i \in DOMAIN near : Score(q, near[i]) >= least <=> i <= m
  BY <1>1, NearestPass
<1>3. n \in Nat
  BY FS_CardinalityType DEF FiniteTables, Rows, AtMost
<1> HIDE DEF n
<1>4. DOMAIN s = 1..m /\ Len(s) = m /\ DOMAIN s \subseteq DOMAIN near /\ \A i \in DOMAIN s : s[i] = near[i]
  BY <1>2, <1>3
<1>5. \A i \in DOMAIN s : Score(q, s[i]) >= least
  BY <1>2, <1>4
<1>6. \A i, j \in DOMAIN s : i < j => Score(q, s[i]) >= Score(q, s[j])
  BY <1>4 DEF Nearest
<1>7. ASSUME NEW id \in DOMAIN Rows, \A i \in DOMAIN s : s[i] # id, Score(q, id) >= least
      PROVE  Len(s) = k /\ \A i \in DOMAIN s : Score(q, s[i]) >= Score(q, id)
  <2>1. \A i \in DOMAIN near : near[i] # id
    <3> SUFFICES ASSUME NEW i \in DOMAIN near, near[i] = id PROVE FALSE
      OBVIOUS
    <3>1. i <= m /\ i \in 1..m
      BY <1>2, <1>7
    <3> QED
      BY <1>4, <1>7, <3>1
  <2>2. \A i \in DOMAIN near : Score(q, near[i]) >= Score(q, id)
    BY <2>1 DEF Nearest
  <2>3. \A i \in DOMAIN near : Score(q, near[i]) \in Int /\ Score(q, id) \in Int
    <3>1. \A i \in DOMAIN near : near[i] \in DOMAIN Rows
      BY DEF Nearest, Lists
    <3> QED
      BY <3>1, RowsTyped, HubAssumption DEF Score, Tables
  <2>4. \A i \in DOMAIN near : i <= m
    BY <1>1, <1>2, <1>7, <2>2, <2>3
  <2>5. m = n
    <3>1. DOMAIN near = 1..n /\ m <= n
      BY <1>2
    <3>2. CASE n = 0
      BY <3>1, <3>2
    <3>3. CASE n # 0
      <4>1. n \in 1..n
        BY <1>3, <3>3
      <4>2. n <= m
        BY <2>4, <3>1, <4>1
      <4> QED
        BY <1>3, <3>1, <4>2
    <3> QED
      BY <3>2, <3>3
  <2>6. n = k
    BY <1>1, <2>1, NearestFull DEF n
  <2> QED
    BY <1>4, <2>2, <2>5, <2>6
<1> QED
  BY <1>5, <1>6, <1>7

\* A search for the k nearest rows returns the k best of those that pass the
\* threshold, best first, whatever the similarities and the table: although the
\* threshold is applied after LIMIT, no row that passes is lost.
THEOREM SearchesAreExact == Spec => []SearchIsExact
<1>1. Init => FiniteTables
  <2>1. DOMAIN NoRows = {}
    BY DEF NoRows
  <2> QED
    BY <2>1, FS_EmptySet, HubAssumption DEF Init, FiniteTables
<1> QED
  BY <1>1, FiniteStep, Invariance, Exact, PTL DEF Spec
=============================================================================
