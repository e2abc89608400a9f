----------------------------- MODULE FeatureHub -----------------------------
(***************************************************************************)
(* The feature hub (feature_hub/feature_hub_db.cpp), the table of face     *)
(* features behind it (feature_hub/embedding_db/embedding_db.cpp) and the  *)
(* C API calls that search it and lend their results to the caller.        *)
(* Every member function of the hub holds one process-wide mutex, so it is *)
(* one action; a C API search is that action between two stretches of code *)
(* outside the mutex.                                                      *)
(*                                                                         *)
(* Abstractions: a feature is a model value, the similarity of two is a    *)
(* level; a failing SQLite statement leaves the table as it was.           *)
(***************************************************************************)
EXTENDS Integers, Sequences, FiniteSets, Sublists

CONSTANTS
    Threads,
    Ids,         \* row ids
    Features,
    Similarity,  \* Similarity[f][g], a level
    Configs,     \* configurations clients pass, valid and invalid
    Thresholds,  \* recognition thresholds clients set, and the default
    Default,     \* the threshold of a hub that is disabled
    Stored,      \* tables a database file may hold from earlier processes
    MaxTopK,
    Nothing

ASSUME HubAssumption ==
    /\ Nothing \notin Features
    /\ Ids \subseteq Int /\ Default \in Thresholds /\ Thresholds \subseteq Int
    /\ Similarity \in [Features -> [Features -> Int]]
    /\ \A c \in Configs : c.threshold \in Thresholds /\ c.manual \in BOOLEAN
    /\ \A table \in Stored :
         /\ DOMAIN table \subseteq Ids /\ IsFiniteSet(DOMAIN table)
         /\ \A i \in DOMAIN table : table[i] \in Features

InvalidId == -1

VARIABLES
    enabled,      \* m_enable_
    manual,       \* the primary key mode in force
    threshold,    \* m_recognition_threshold_
    open,         \* the database EmbeddingDB::instance_ has open
    memory, file, \* the rows of either database; a memory database dies with its instance
    searchCache,  \* m_search_face_feature_cache_
    getterCache,  \* m_getter_face_feature_cache_
    pointer,      \* m_face_feature_ptr_cache_: no entity, or what its data points to
    retrieved,    \* history: the feature the last call that moves the pointer found
    pc, query, answer, \* of the searches under way
    cell,         \* thread_local results: of the single search, of HFFeatureHubGetFaceIdentity
    borrowed      \* history: the features the last calls of each thread lent it

hub == <<enabled, manual, threshold, open, memory, file>>
caches == <<searchCache, getterCache, pointer, retrieved>>
locals == <<pc, query, answer, cell, borrowed>>
vars == <<enabled, manual, threshold, open, memory, file, searchCache, getterCache, pointer,
          retrieved, pc, query, answer, cell, borrowed>>

NoRows == [i \in {} |-> Nothing]
Rows == IF open = "file" THEN file ELSE memory
SetRows(rows) ==
    /\ file' = IF open = "file" THEN rows ELSE file
    /\ memory' = IF open = "memory" THEN rows ELSE memory

Lent == {"search", "identity"}

Init ==
    /\ enabled = FALSE /\ manual = FALSE /\ threshold = Default
    /\ open = "none"
    /\ memory = NoRows /\ file \in Stored
    /\ searchCache = Nothing /\ getterCache = Nothing
    /\ pointer = "absent" /\ retrieved = Nothing
    /\ pc = [t \in Threads |-> "idle"]
    /\ query = [t \in Threads |-> Nothing]
    /\ answer = [t \in Threads |-> Nothing]
    /\ cell = [t \in Threads |-> [k \in Lent |-> Nothing]]
    /\ borrowed = [t \in Threads |-> [k \in Lent |-> Nothing]]

-----------------------------------------------------------------------------
(* EnableHub and DisableHub. *)

ClearCaches(entity) ==
    /\ searchCache' = Nothing /\ getterCache' = Nothing
    /\ pointer' = entity /\ retrieved' = Nothing

\* The configuration of an enabled hub is ignored and reported as a success.
\* A database that cannot be opened, or holds another schema, leaves the hub as it was.
EnableHub(c) ==
    /\ ~enabled /\ c.valid
    /\ \/ UNCHANGED <<enabled, manual, threshold, open, caches>>
       \/ /\ open' = IF c.file THEN "file" ELSE "memory"
          /\ manual' = c.manual /\ threshold' = c.threshold
          /\ enabled' = TRUE
          /\ ClearCaches("null")
    /\ UNCHANGED <<memory, file, locals>>

DisableHub ==
    /\ enabled
    /\ enabled' = FALSE /\ manual' = FALSE /\ threshold' = Default
    /\ open' = "none" /\ memory' = NoRows
    /\ ClearCaches("absent")
    /\ UNCHANGED <<file, locals>>

SetRecognitionThreshold(value) ==
    /\ threshold' = value
    /\ UNCHANGED <<enabled, manual, open, memory, file, caches, locals>>

-----------------------------------------------------------------------------
(* Changing the table.  A call that fails changes nothing. *)

\* The id is the database's in automatic mode and the caller's in manual mode,
\* where a known id violates the primary key.
FaceFeatureInsert(id, f) ==
    /\ enabled /\ id \notin DOMAIN Rows
    /\ manual => id # InvalidId
    /\ ~manual => id > 0
    /\ SetRows([i \in DOMAIN Rows \cup {id} |-> IF i = id THEN f ELSE Rows[i]])
    /\ UNCHANGED <<enabled, manual, threshold, open, caches, locals>>

FaceFeatureRemove(id) ==
    /\ enabled /\ id \in DOMAIN Rows
    /\ SetRows([i \in DOMAIN Rows \ {id} |-> Rows[i]])
    /\ UNCHANGED <<enabled, manual, threshold, open, caches, locals>>

FaceFeatureUpdate(id, f) ==
    /\ enabled /\ id \in DOMAIN Rows
    /\ SetRows([Rows EXCEPT ![id] = f])
    /\ UNCHANGED <<enabled, manual, threshold, open, caches, locals>>

-----------------------------------------------------------------------------
(* Searching it. *)

Score(q, id) == Similarity[q][Rows[id]]
AtMost(n, m) == IF n < m THEN n ELSE m
Lists(n) == {s \in [1..n -> DOMAIN Rows] : \A i, j \in 1..n : i # j => s[i] # s[j]}

\* Mutant: rows in the order of the table.
Unordered(q, k) == Lists(AtMost(k, Cardinality(DOMAIN Rows)))

\* ORDER BY distance LIMIT k; rows at one distance come in any order.
Nearest(q, k) ==
    {s \in Lists(AtMost(k, Cardinality(DOMAIN Rows))) :
        /\ \A i, j \in DOMAIN s : i < j => Score(q, s[i]) >= Score(q, s[j])
        /\ \A i \in DOMAIN s, id \in DOMAIN Rows \ {s[j] : j \in DOMAIN s} :
              Score(q, s[i]) >= Score(q, id)}

\* The threshold is applied to the rows that come back.
SearchSimilarVectors(q, k, least) ==
    {Sublist(s, {i \in DOMAIN s : Score(q, s[i]) >= least}) : s \in Nearest(q, k)}

\* Mutant: the pointer stays where it is.
KeepPointer(p) == p

InvalidateFaceFeaturePointer(p) == IF p = "absent" THEN "absent" ELSE "null"

\* SearchFaceFeatureV2, for a caller who may not want the feature.  It finds the
\* feature or Nothing; found says what.
SearchFaceFeatureV2(q, returnFeature, found) ==
    /\ \/ found = Nothing  \* disabled, a query that is not finite, or a failing statement
       \/ /\ enabled
          /\ \E results \in SearchSimilarVectors(q, 1, threshold) :
               found = IF results = <<>> THEN Nothing ELSE Rows[results[1]]
    /\ IF found # Nothing /\ returnFeature
       THEN /\ searchCache' = found
            /\ pointer' = IF pointer = "absent" THEN "absent" ELSE "search"
            /\ retrieved' = found
       ELSE /\ searchCache' = Nothing
            /\ pointer' = InvalidateFaceFeaturePointer(pointer)
            /\ retrieved' = Nothing
    /\ UNCHANGED getterCache

\* What reading a row may find: nothing if the hub is disabled, there is no such
\* row or the statement fails.
Found(id) == {Nothing} \cup (IF enabled /\ id \in DOMAIN Rows THEN {Rows[id]} ELSE {})

\* GetFaceFeature(id) into the compatibility cache.
GetFaceFeature(id) ==
    /\ \E found \in Found(id) :
         /\ getterCache' = found
         /\ pointer' = IF found = Nothing \/ pointer = "absent"
                       THEN InvalidateFaceFeaturePointer(pointer) ELSE "getter"
         /\ retrieved' = found
    /\ UNCHANGED <<searchCache, hub, locals>>

-----------------------------------------------------------------------------
(* The C API. *)

\* Mutant: one static result for all threads.
OneCell(t) == CHOOSE u \in Threads : TRUE

\* The results a thread's calls are stored in: its own, they are thread_local.
CellOf(t) == t

\* HFFeatureHubFaceSearchV2 and, through it, HFFeatureHubFaceSearch.  What the
\* last single search of this thread lent ends here; a query that is no feature
\* (Nothing) returns at once.
BeginSearch(t, q) ==
    /\ pc[t] = "idle"
    /\ cell' = [cell EXCEPT ![CellOf(t)]["search"] = Nothing]
    /\ borrowed' = [borrowed EXCEPT ![t]["search"] = Nothing]
    /\ query' = [query EXCEPT ![t] = q]
    /\ pc' = [pc EXCEPT ![t] = IF q = Nothing THEN "idle" ELSE "search"]
    /\ UNCHANGED <<hub, caches, answer>>

CallHub(t) ==
    /\ pc[t] = "search"
    /\ \E found \in Features \cup {Nothing} :
         /\ SearchFaceFeatureV2(query[t], TRUE, found)
         /\ answer' = [answer EXCEPT ![t] = found]
    /\ query' = [query EXCEPT ![t] = Nothing]
    /\ pc' = [pc EXCEPT ![t] = "deliver"]
    /\ UNCHANGED <<hub, cell, borrowed>>

DeliverSearch(t) ==
    /\ pc[t] = "deliver"
    /\ IF answer[t] = Nothing THEN UNCHANGED <<cell, borrowed>>
       ELSE /\ cell' = [cell EXCEPT ![CellOf(t)]["search"] = answer[t]]
            /\ borrowed' = [borrowed EXCEPT ![t]["search"] = answer[t]]
    /\ answer' = [answer EXCEPT ![t] = Nothing]
    /\ pc' = [pc EXCEPT ![t] = "idle"]
    /\ UNCHANGED <<hub, caches, query>>

\* The hub fills the thread's result under its mutex.
HFFeatureHubGetFaceIdentity(t, id) ==
    /\ pc[t] = "idle"
    /\ \E found \in Found(id) :
         /\ cell' = [cell EXCEPT ![CellOf(t)]["identity"] = found]
         /\ borrowed' = [borrowed EXCEPT ![t]["identity"] = found]
    /\ UNCHANGED <<hub, caches, pc, query, answer>>

\* Users of the C++ class.
SearchFaceFeature(q, returnFeature) ==
    /\ \E found \in Features \cup {Nothing} : SearchFaceFeatureV2(q, returnFeature, found)
    /\ UNCHANGED <<hub, locals>>

Next ==
    \/ \E c \in Configs : EnableHub(c)
    \/ DisableHub
    \/ \E value \in Thresholds : SetRecognitionThreshold(value)
    \/ \E id \in Ids, f \in Features : FaceFeatureInsert(id, f) \/ FaceFeatureUpdate(id, f)
    \/ \E id \in Ids : FaceFeatureRemove(id) \/ GetFaceFeature(id)
    \/ \E q \in Features, returnFeature \in BOOLEAN : SearchFaceFeature(q, returnFeature)
    \/ \E t \in Threads :
         \/ \E q \in Features \cup {Nothing} : BeginSearch(t, q)
         \/ CallHub(t) \/ DeliverSearch(t)
         \/ \E id \in Ids : HFFeatureHubGetFaceIdentity(t, id)

Spec == Init /\ [][Next]_vars

-----------------------------------------------------------------------------
(* Properties. *)

\* The entity the two compatibility caches share (GetFaceFeaturePtrCache) points
\* to the feature that the last search or getter found, and to nothing if that
\* one found nothing, failed or did not want the feature: it never shows what an
\* earlier call left in the other cache.
PointerCoherent ==
    CASE pointer = "absent" -> ~enabled
      [] pointer = "null" -> retrieved = Nothing
      [] pointer = "search" -> retrieved # Nothing /\ searchCache = retrieved
      [] pointer = "getter" -> retrieved # Nothing /\ getterCache = retrieved

\* "feature.data remains valid until the next single-search call on the same
\* thread": whatever other threads search, change, disable or enable meanwhile.
\* The same holds of the identity HFFeatureHubGetFaceIdentity lends.
BorrowedResultsStay ==
    \A t \in Threads, k \in Lent :
        borrowed[t][k] # Nothing => cell[CellOf(t)][k] = borrowed[t][k]

\* A search for the k best rows yields the k best of those that pass the
\* threshold, best first, although only k rows are read before the threshold is
\* applied: none that passes is missing unless k at least as good are there.
SearchIsExact ==
    \A q \in Features, k \in 1..MaxTopK, least \in Thresholds :
        \A s \in SearchSimilarVectors(q, k, least) :
            LET ids == {s[i] : i \in DOMAIN s}
            IN /\ \A i \in DOMAIN s : Score(q, s[i]) >= least
               /\ \A i, j \in DOMAIN s : i < j => Score(q, s[i]) >= Score(q, s[j])
               /\ \A id \in DOMAIN Rows \ ids :
                     Score(q, id) >= least =>
                         Len(s) = k /\ \A i \in DOMAIN s : Score(q, s[i]) >= Score(q, id)

\* Every variable has its type, and an enabled hub has a database open.
TypeOK ==
    /\ enabled \in BOOLEAN /\ manual \in BOOLEAN /\ threshold \in Thresholds
    /\ open \in {"none", "memory", "file"} /\ (enabled <=> open # "none")
    /\ \A table \in {memory, file} :
         DOMAIN table \subseteq Ids /\ \A i \in DOMAIN table : table[i] \in Features
    /\ searchCache \in Features \cup {Nothing} /\ getterCache \in Features \cup {Nothing}
    /\ pointer \in {"absent", "null", "search", "getter"}
    /\ pc \in [Threads -> {"idle", "search", "deliver"}]
    /\ query \in [Threads -> Features \cup {Nothing}]
    /\ answer \in [Threads -> Features \cup {Nothing}]
    /\ cell \in [Threads -> [Lent -> Features \cup {Nothing}]]
=============================================================================
