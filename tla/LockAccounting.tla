--------------------------- MODULE LockAccounting ---------------------------
(***************************************************************************)
(* The bookkeeping every n00b lock shares (src/mt/lock_accounting.nc): the *)
(* owner/nesting word in each lock, and the doubly linked list that hangs  *)
(* off each thread's exclusive_locks pointer and names the locks the       *)
(* thread must give back when it exits.                                    *)
(*                                                                         *)
(* The lock kinds (Mutex, RWLock) extend this module.  A thread runs these *)
(* operators while it is, by the lock's own protocol, the only one that    *)
(* may write the lock's word, so each is a single step.                    *)
(*                                                                         *)
(* This is the N00B_DEBUG build, the repository's default: without it      *)
(* line 126, the store of the new owner, is compiled out.                  *)
(***************************************************************************)
EXTENDS Integers

CONSTANTS
    Threads,     \* the n00b threads, identified by their thread_id
    Locks,       \* the locks, identified by their address
    NoOwner,     \* N00B_NO_OWNER
    Null,        \* the null pointer
    MaxNesting   \* bound on how deep a thread re-enters a lock (an int16_t)

ASSUME AccountingAssumption ==
    /\ NoOwner \notin Threads
    /\ Null \notin Locks
    /\ MaxNesting \in Nat

VARIABLES
    data,        \* lock -> its n00b_core_lock_info_t: owner and nesting level
    nextLock,    \* lock -> next_thread_lock
    prevLock,    \* lock -> prev_thread_lock
    exclusive,   \* thread -> tsi->exclusive_locks, the head of its list
    fatal        \* why the process has aborted, if it has

acctVars == <<data, nextLock, prevLock, exclusive, fatal>>

\* A failed assert(), or a fatal error blamed on the caller; both abort().
Fatality == {"none", "assert", "misuse"}

\* A level count never runs below zero, and links lead to locks.
AcctTypeOK ==
    /\ data \in [Locks -> [owner : Threads \cup {NoOwner}, nesting : Nat]]
    /\ nextLock \in [Locks -> Locks \cup {Null}]
    /\ prevLock \in [Locks -> Locks \cup {Null}]
    /\ exclusive \in [Threads -> Locks \cup {Null}]
    /\ fatal \in Fatality

\* n00b_lock_init_accounting, for every lock.
AcctInit ==
    /\ data = [l \in Locks |-> [owner |-> NoOwner, nesting |-> 0]]
    /\ nextLock = [l \in Locks |-> Null]
    /\ prevLock = [l \in Locks |-> Null]
    /\ exclusive = [t \in Threads |-> Null]
    /\ fatal = "none"

Owns(t, l) == data[l].owner = t

-----------------------------------------------------------------------------
(* n00b_lock_acquire_accounting.                                           *)

\* The owner comes back in: one more level, the list is left alone.
Renest(t, l) ==
    /\ Owns(t, l)
    /\ data' = [data EXCEPT ![l] = [owner |-> t, nesting |-> @.nesting + 1]]
    /\ UNCHANGED <<nextLock, prevLock, exclusive, fatal>>

\* A first acquisition: the lock becomes the head of its owner's list.
PushHeld(t, l) ==
    LET top == exclusive[t] IN
    /\ data' = [data EXCEPT ![l] = [owner |-> t, nesting |-> 1]]
    /\ prevLock' = IF top = Null THEN prevLock ELSE [prevLock EXCEPT ![top] = l]
    /\ nextLock' = [nextLock EXCEPT ![l] = top]
    /\ exclusive' = [exclusive EXCEPT ![t] = l]
    /\ UNCHANGED fatal

\* The assertion that a lock word being taken names nobody else.
Contradicted(t, l) == data[l].owner \notin {t, NoOwner}

AcquireAccounting(t, l) ==
    \/ Renest(t, l)
    \/ data[l].owner = NoOwner /\ PushHeld(t, l)
    \/ /\ Contradicted(t, l)
       /\ fatal' = "assert"
       /\ UNCHANGED <<data, nextLock, prevLock, exclusive>>

-----------------------------------------------------------------------------
(* n00b_lock_release_accounting.  It returns TRUE, so that the caller goes *)
(* on to free the lock, exactly when it drops the last level.              *)

\* Mutant: nesting is tested before it is decremented.
LastLevel_PostDecrement(l) == data[l].nesting = 0

LastLevel(l) == data[l].nesting = 1

\* Mutant: the lower level is computed but not stored.
Unnest_NotStored(t, l) == UNCHANGED acctVars

Unnest(t, l) ==
    /\ data' = [data EXCEPT ![l] = [owner |-> t, nesting |-> @.nesting - 1]]
    /\ UNCHANGED <<nextLock, prevLock, exclusive, fatal>>

\* Mutant: only a lock at the head of the list is unlinked.
UnlinkHeld_HeadOnly(t, l) ==
    /\ data' = [data EXCEPT ![l] = [owner |-> NoOwner, nesting |-> @.nesting - 1]]
    /\ exclusive' = IF exclusive[t] = l
                    THEN [exclusive EXCEPT ![t] = nextLock[l]] ELSE exclusive
    /\ nextLock' = [nextLock EXCEPT ![l] = Null]
    /\ prevLock' = [prevLock EXCEPT ![l] = Null]
    /\ UNCHANGED fatal

\* The last level: nobody owns the lock and it leaves its owner's list,
\* wherever in the list it is.
UnlinkHeld(t, l) ==
    LET prev == prevLock[l]
        next == nextLock[l]
    IN
    /\ data' = [data EXCEPT ![l] = [owner |-> NoOwner, nesting |-> @.nesting - 1]]
    /\ nextLock' = [k \in Locks |-> IF k = l THEN Null
                                    ELSE IF k = prev /\ prev # next THEN next
                                    ELSE nextLock[k]]
    /\ prevLock' = [k \in Locks |-> IF k = l THEN Null
                                    ELSE IF k = next /\ prev # next THEN prev
                                    ELSE prevLock[k]]
    /\ exclusive' = IF exclusive[t] # l THEN exclusive
                    ELSE [exclusive EXCEPT ![t] = IF next = l THEN Null ELSE next]
    /\ UNCHANGED fatal

\* Unlocking what is unlocked, or what another thread owns, aborts.
Misuse(t, l) ==
    /\ ~Owns(t, l)
    /\ fatal' = "misuse"
    /\ UNCHANGED <<data, nextLock, prevLock, exclusive>>

-----------------------------------------------------------------------------
(***************************************************************************)
(* What the list promises.                                                 *)
(***************************************************************************)

\* Each thread's list is a well-linked chain of locks it owns, headed by
\* exclusive_locks, and a lock nobody owns is on no list.
ListLinked ==
    /\ \A t \in Threads : exclusive[t] # Null =>
          Owns(t, exclusive[t]) /\ prevLock[exclusive[t]] = Null
    /\ \A l \in Locks :
          /\ nextLock[l] # Null =>
                /\ nextLock[l] # l
                /\ prevLock[nextLock[l]] = l
                /\ data[nextLock[l]].owner = data[l].owner
          /\ prevLock[l] # Null =>
                /\ prevLock[l] # l
                /\ nextLock[prevLock[l]] = l
                /\ data[prevLock[l]].owner = data[l].owner
          /\ data[l].owner = NoOwner => nextLock[l] = Null /\ prevLock[l] = Null
          /\ data[l].owner # NoOwner /\ prevLock[l] = Null =>
                exclusive[data[l].owner] = l

\* A level count and an owner come and go together.
NestingMatchesOwner ==
    \A l \in Locks : data[l].nesting = 0 <=> data[l].owner = NoOwner
=============================================================================
