--------------------------- MODULE ObjectLifetime ---------------------------
(***************************************************************************)
(* What the handle layer promises about the life of one object, as the     *)
(* comment on ResourceLease states it (runtime_module/resource_manage.h,   *)
(* lines 52-56): a public object can be entered by calls; releasing it     *)
(* stops new calls from entering at once; it is destroyed only when the    *)
(* last user, and the last object built on it, are gone.                   *)
(* There are no handles, registries, addresses or programs here.           *)
(***************************************************************************)
CONSTANTS Threads, Objects, NoObject

VARIABLES
    stage,  \* "unborn", "private", "public", "retired" or "destroyed"
    users,  \* users[o]: threads whose current call keeps o
    base    \* base[c]: object that c is built on, or NoObject

lifeVars == <<stage, users, base>>

Stages == {"unborn", "private", "public", "retired", "destroyed"}
Existing == {o \in Objects : stage[o] \in {"private", "public", "retired"}}

LifeInit ==
    /\ stage = [o \in Objects |-> "unborn"]
    /\ users = [o \in Objects |-> {}]
    /\ base = [o \in Objects |-> NoObject]

\* A call builds o, on an object b it is using or on nothing.
Build(t, o) ==
    /\ stage[o] = "unborn"
    /\ stage' = [stage EXCEPT ![o] = "private"]
    /\ users' = [users EXCEPT ![o] = {t}]
    /\ \E b \in {NoObject} \cup {x \in Objects : t \in users[x]} :
         base' = [base EXCEPT ![o] = b]

\* The builder hands o to the clients.
Open(t, o) ==
    /\ stage[o] = "private" /\ t \in users[o]
    /\ stage' = [stage EXCEPT ![o] = "public"]
    /\ UNCHANGED <<users, base>>

\* A call enters a public object, and only a public one.
Enter(t, o) ==
    /\ stage[o] = "public"
    /\ users' = [users EXCEPT ![o] = @ \cup {t}]
    /\ UNCHANGED <<stage, base>>

\* A release: from here on nobody enters.  The releasing call keeps o a little.
Retire(t, o) ==
    /\ stage[o] = "public"
    /\ stage' = [stage EXCEPT ![o] = "retired"]
    /\ users' = [users EXCEPT ![o] = @ \cup {t}]
    /\ UNCHANGED base

\* A call stops using some objects; objects that nobody can reach any more are
\* destroyed in the same step.
Leave(t) ==
    /\ \A o \in Objects : users'[o] \in {users[o], users[o] \ {t}}
    /\ DOMAIN users' = Objects
    /\ stage' \in [Objects -> Stages]
    /\ \A o \in Objects :
         \/ stage'[o] = stage[o]
         \/ /\ stage[o] \in {"private", "retired"} /\ stage'[o] = "destroyed"
            /\ users'[o] = {}
            /\ \A c \in Existing : base[c] = o => stage'[c] = "destroyed"
    /\ UNCHANGED base

LifeNext ==
    \E t \in Threads :
        \/ Leave(t)
        \/ \E o \in Objects : Build(t, o) \/ Open(t, o) \/ Enter(t, o) \/ Retire(t, o)

LifeSpec == LifeInit /\ [][LifeNext]_lifeVars
=============================================================================
