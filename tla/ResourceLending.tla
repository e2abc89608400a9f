-------------------------- MODULE ResourceLending --------------------------
(***************************************************************************)
(* What a resource pool promises, without guards, waits or notifications:  *)
(* a queue of resources; a thread borrows the first one, and none else has *)
(* it until that thread returns it, to the end of the queue.               *)
(***************************************************************************)
EXTENDS Naturals, Sequences

CONSTANT Threads

VARIABLES
    size,      \* resources there are
    queue,     \* the resources to lend, in the order they will be lent
    borrowers  \* borrowers[r]: the threads that have resource r

lendingVars == <<size, queue, borrowers>>

LendingInit == size = 0 /\ queue = <<>> /\ borrowers = <<>>

\* There is one resource more.
Add ==
    /\ size' = size + 1
    /\ queue' = Append(queue, size + 1)
    /\ borrowers' = [r \in 1..(size + 1) |-> IF r \in 1..size THEN borrowers[r] ELSE {}]

\* Thread t gets the resource that has been available for longest.
Borrow(t) ==
    /\ queue # <<>>
    /\ borrowers[Head(queue)] = {}
    /\ borrowers' = [borrowers EXCEPT ![Head(queue)] = {t}]
    /\ queue' = Tail(queue)
    /\ UNCHANGED size

\* Thread t returns a resource it alone has.
Return(t) ==
    /\ \E r \in 1..size :
         /\ borrowers[r] = {t}
         /\ borrowers' = [borrowers EXCEPT ![r] = {}]
         /\ queue' = Append(queue, r)
    /\ UNCHANGED size

LendingNext == Add \/ \E t \in Threads : Borrow(t) \/ Return(t)

LendingSpec == LendingInit /\ [][LendingNext]_lendingVars
=============================================================================
