---------------------------- MODULE ReentrantLock ----------------------------
(***************************************************************************)
(* What a n00b mutex promises its callers: each lock has at most one       *)
(* holder, who may take it again any number of times, and who alone gives  *)
(* it back, one level at a time.                                           *)
(***************************************************************************)
EXTENDS Integers

CONSTANTS Threads, Locks, NoOwner

VARIABLES
    holder,   \* lock -> the thread that holds it, or NoOwner
    depth     \* lock -> how many times over its holder holds it

vars == <<holder, depth>>

Init ==
    /\ holder = [l \in Locks |-> NoOwner]
    /\ depth = [l \in Locks |-> 0]

Acquire(t, l) ==
    /\ holder[l] = NoOwner
    /\ holder' = [holder EXCEPT ![l] = t]
    /\ depth' = [depth EXCEPT ![l] = 1]

Reacquire(t, l) ==
    /\ holder[l] = t
    /\ depth' = [depth EXCEPT ![l] = @ + 1]
    /\ UNCHANGED holder

Release(t, l) ==
    /\ holder[l] = t
    /\ depth[l] > 1
    /\ depth' = [depth EXCEPT ![l] = @ - 1]
    /\ UNCHANGED holder

Free(t, l) ==
    /\ holder[l] = t
    /\ depth[l] = 1
    /\ holder' = [holder EXCEPT ![l] = NoOwner]
    /\ depth' = [depth EXCEPT ![l] = 0]

Next ==
    \E t \in Threads, l \in Locks :
        Acquire(t, l) \/ Reacquire(t, l) \/ Release(t, l) \/ Free(t, l)

Spec == Init /\ [][Next]_vars
=============================================================================
