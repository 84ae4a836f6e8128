-------------------------------- MODULE Mutex --------------------------------
(***************************************************************************)
(* n00b's mutex (src/mt/mutex.nc) over the shared bookkeeping of           *)
(* LockAccounting, with the part of thread exit that gives a dying         *)
(* thread's locks back (src/mt/thread.nc).                                 *)
(*                                                                         *)
(* The futex word of a mutex is 0 or 1.  Whoever turns it from 0 to 1 with *)
(* a fetch-or is inside; it then writes its name in the lock's data word.  *)
(* A step of this module is one access to a word other threads can see.    *)
(***************************************************************************)
EXTENDS LockAccounting, FiniteSets

CONSTANTS
    SpinLimit,   \* N00B_SPIN_LIMIT
    MaxCalls     \* bound: how many lock calls a thread makes in its life

ASSUME MutexAssumption ==
    /\ IsFiniteSet(Threads)
    /\ SpinLimit \in Nat \ {0} /\ MaxCalls \in Nat

VARIABLES
    futex,       \* lock -> its futex word
    shouldWake,  \* lock -> should_wake, the number of threads in the slow path
    pc,          \* thread -> where it is in the code below
    target,      \* thread -> the lock its call in progress is about
    spins,       \* thread -> failed attempts so far in spin_phase
    timed,       \* thread -> whether that call is a try_lock
    leaving,     \* thread -> whether it is running its exit handler
    calls        \* thread -> how many more lock calls it will make

mutexVars == <<futex, shouldWake, pc, target, spins, timed, leaving, calls>>
vars == <<acctVars, mutexVars>>

PCs == {"idle", "spin", "slow", "poll", "grab", "won", "account",
        "clear", "check", "exit", "gone"}

\* The mutex's words keep their ranges; no unlock runs a nesting level below
\* zero.
TypeOK ==
    /\ AcctTypeOK
    /\ futex \in [Locks -> {0, 1}]
    /\ shouldWake \in [Locks -> Int]
    /\ pc \in [Threads -> PCs]
    /\ target \in [Threads -> Locks \cup {Null}]
    /\ spins \in [Threads -> Nat]
    /\ timed \in [Threads -> BOOLEAN]
    /\ leaving \in [Threads -> BOOLEAN]
    /\ calls \in [Threads -> Nat]

Init ==
    /\ AcctInit
    /\ futex = [l \in Locks |-> 0]
    /\ shouldWake = [l \in Locks |-> 0]
    /\ pc = [t \in Threads |-> "idle"]
    /\ target = [t \in Threads |-> Null]
    /\ spins = [t \in Threads |-> 0]
    /\ timed = [t \in Threads |-> FALSE]
    /\ leaving = [t \in Threads |-> FALSE]
    /\ calls = [t \in Threads |-> MaxCalls]

Goto(t, label) == pc' = [pc EXCEPT ![t] = label]

\* atomic_fetch_or(&mutex->futex, 1)
FetchOr(l) == futex' = [futex EXCEPT ![l] = 1]

-----------------------------------------------------------------------------
(* Acquiring: n00b_mutex_lock and n00b_mutex_try_lock.                     *)

\* The caller's own name in the data word: one more level, no futex access.
LockNested(t, l) ==
    /\ pc[t] = "idle" /\ calls[t] > 0
    /\ data[l].nesting < MaxNesting
    /\ Renest(t, l)
    /\ calls' = [calls EXCEPT ![t] = @ - 1]
    /\ UNCHANGED <<futex, shouldWake, pc, target, spins, timed, leaving>>

LockCall(t, l, try) ==
    /\ pc[t] = "idle" /\ calls[t] > 0
    /\ ~Owns(t, l)
    /\ Goto(t, "spin")
    /\ target' = [target EXCEPT ![t] = l]
    /\ spins' = [spins EXCEPT ![t] = 0]
    /\ timed' = [timed EXCEPT ![t] = try]
    /\ calls' = [calls EXCEPT ![t] = @ - 1]
    /\ UNCHANGED <<acctVars, futex, shouldWake, leaving>>

\* One round of spin_phase's loop.
Spin(t) ==
    /\ pc[t] = "spin"
    /\ FetchOr(target[t])
    /\ IF futex[target[t]] = 0
       THEN Goto(t, "account") /\ UNCHANGED spins
       ELSE IF spins[t] + 1 < SpinLimit
       THEN spins' = [spins EXCEPT ![t] = @ + 1] /\ UNCHANGED pc
       ELSE spins' = [spins EXCEPT ![t] = 0] /\ Goto(t, "slow")
    /\ UNCHANGED <<acctVars, shouldWake, target, timed, leaving, calls>>

BeginWait(t) ==
    /\ pc[t] = "slow"
    /\ shouldWake' = [shouldWake EXCEPT ![target[t]] = @ + 1]
    /\ Goto(t, "poll")
    /\ UNCHANGED <<acctVars, futex, target, spins, timed, leaving, calls>>

\* n00b_futex_wait_for_value returns when it reads 0; the timed one of
\* try_lock may also run out of time, and its answer is not looked at.
Poll(t) ==
    /\ pc[t] = "poll"
    /\ futex[target[t]] = 0 \/ timed[t]
    /\ Goto(t, "grab")
    /\ UNCHANGED <<acctVars, futex, shouldWake, target, spins, timed, leaving, calls>>

\* Mutant: a waiter that saw 0 takes it that the lock is its own.
Grab_Unchecked(t) ==
    /\ pc[t] = "grab"
    /\ FetchOr(target[t])
    /\ Goto(t, "won")
    /\ UNCHANGED <<acctVars, shouldWake, target, spins, timed, leaving, calls>>

Grab(t) ==
    /\ pc[t] = "grab"
    /\ FetchOr(target[t])
    /\ Goto(t, IF futex[target[t]] = 0 THEN "won" ELSE "poll")
    /\ UNCHANGED <<acctVars, shouldWake, target, spins, timed, leaving, calls>>

\* Mutant: the waiter count is not taken back.
EndWait_KeepsCount(t) ==
    /\ pc[t] = "won"
    /\ Goto(t, "account")
    /\ UNCHANGED <<acctVars, futex, shouldWake, target, spins, timed, leaving, calls>>

EndWait(t) ==
    /\ pc[t] = "won"
    /\ shouldWake' = [shouldWake EXCEPT ![target[t]] = @ - 1]
    /\ Goto(t, "account")
    /\ UNCHANGED <<acctVars, futex, target, spins, timed, leaving, calls>>

\* The thread that won the futex word writes itself into the data word.
Account(t) ==
    /\ pc[t] = "account"
    /\ AcquireAccounting(t, target[t])
    /\ Goto(t, "idle")
    /\ target' = [target EXCEPT ![t] = Null]
    /\ UNCHANGED <<futex, shouldWake, spins, timed, leaving, calls>>

-----------------------------------------------------------------------------
(* Releasing: n00b_mutex_unlock, from user code or from the exit handler.  *)

\* Where an unlock returns to.
Caller(t) == IF leaving[t] THEN "exit" ELSE "idle"

UnlockBody(t, l) ==
    \/ /\ Owns(t, l) /\ ~LastLevel(l)
       /\ Unnest(t, l)
       /\ UNCHANGED mutexVars
    \/ /\ Owns(t, l) /\ LastLevel(l)
       /\ UnlinkHeld(t, l)
       /\ Goto(t, "clear")
       /\ target' = [target EXCEPT ![t] = l]
       /\ UNCHANGED <<futex, shouldWake, spins, timed, leaving, calls>>
    \/ Misuse(t, l) /\ UNCHANGED mutexVars

Unlock(t, l) == pc[t] = "idle" /\ UnlockBody(t, l)

\* Mutant: the last level is given up without clearing the futex word.
ClearFutex_Skipped(t) ==
    /\ pc[t] = "clear"
    /\ Goto(t, "check")
    /\ UNCHANGED <<acctVars, futex, shouldWake, target, spins, timed, leaving, calls>>

ClearFutex(t) ==
    /\ pc[t] = "clear"
    /\ futex' = [futex EXCEPT ![target[t]] = 0]
    /\ Goto(t, "check")
    /\ UNCHANGED <<acctVars, shouldWake, target, spins, timed, leaving, calls>>

\* assert(!atomic_read(&mutex->futex)), then a wake if should_wake says so.
\* Waiters poll, so the wake has nobody to reach.
CheckCleared(t) ==
    /\ pc[t] = "check"
    /\ fatal' = IF futex[target[t]] = 0 THEN fatal ELSE "assert"
    /\ Goto(t, Caller(t))
    /\ target' = [target EXCEPT ![t] = Null]
    /\ UNCHANGED <<data, nextLock, prevLock, exclusive,
                   futex, shouldWake, spins, timed, leaving, calls>>

-----------------------------------------------------------------------------
(* Thread exit: n00b_release_locks_on_thread_exit.                         *)

ExitThread(t) ==
    /\ pc[t] = "idle"
    /\ leaving' = [leaving EXCEPT ![t] = TRUE]
    /\ Goto(t, "exit")
    /\ UNCHANGED <<acctVars, futex, shouldWake, target, spins, timed, calls>>

\* Mutant: the handler does not come back for the outer levels of a lock.
ExitRelease_Once(t) ==
    /\ pc[t] = "exit"
    /\ \/ /\ exclusive[t] # Null
          /\ UnlockBody(t, exclusive[t])
          /\ LastLevel(exclusive[t])
       \/ /\ exclusive[t] # Null => ~LastLevel(exclusive[t])
          /\ Goto(t, "gone")
          /\ UNCHANGED <<acctVars, futex, shouldWake, target, spins, timed, leaving, calls>>

\* The head of the list is unlocked until the list is empty.
ExitRelease(t) ==
    /\ pc[t] = "exit"
    /\ \/ exclusive[t] # Null /\ UnlockBody(t, exclusive[t])
       \/ /\ exclusive[t] = Null
          /\ Goto(t, "gone")
          /\ UNCHANGED <<acctVars, futex, shouldWake, target, spins, timed, leaving, calls>>

-----------------------------------------------------------------------------
Step(t) ==
    \/ \E l \in Locks :
          \/ LockNested(t, l)
          \/ \E try \in BOOLEAN : LockCall(t, l, try)
          \/ Unlock(t, l)
    \/ Spin(t) \/ BeginWait(t) \/ Poll(t) \/ Grab(t) \/ EndWait(t) \/ Account(t)
    \/ ClearFutex(t) \/ CheckCleared(t)
    \/ ExitThread(t) \/ ExitRelease(t)

Running == fatal = "none"

Waiting(t, l) == pc[t] \in {"spin", "slow", "poll", "grab"} /\ target[t] = l

\* Some threads wait for locks owned by threads of the same group: the
\* callers' lock order is at fault, not the mutex.
CallersDeadlocked ==
    \E S \in SUBSET Threads \ {{}} :
        \A t \in S : \E l \in Locks, u \in S : Waiting(t, l) /\ Owns(u, l)

\* The process has aborted, or every thread has exited or can never move.
Ended ==
    \/ ~Running
    \/ \A t \in Threads : pc[t] = "gone"
    \/ CallersDeadlocked

Next ==
    \/ Running /\ \E t \in Threads : Step(t)
    \/ Ended /\ UNCHANGED vars

Spec == Init /\ [][Next]_vars

(***************************************************************************)
(* Fairness: the operating system keeps scheduling every thread.  As the   *)
(* thread's calls are bounded, this also says that no caller sits on a     *)
(* lock for ever: it unlocks it or exits.  Nothing is assumed of the order *)
(* in which contending threads get the futex word.                         *)
(***************************************************************************)
FairSpec == Spec /\ \A t \in Threads : WF_vars(Running /\ Step(t))

-----------------------------------------------------------------------------
(***************************************************************************)
(* Properties.                                                             *)
(***************************************************************************)

\* t is inside l: from the fetch-or that won the futex word to the store
\* that clears it.
Inside(t, l) ==
    \/ Owns(t, l)
    \/ pc[t] \in {"won", "account", "clear"} /\ target[t] = l

InSlowPath(t, l) == pc[t] \in {"poll", "grab", "won"} /\ target[t] = l

\* Two threads are never inside one mutex, whichever of spin_phase and the
\* slow path of n00b_mutex_lock let each of them in.
MutualExclusion ==
    \A l \in Locks : \A t, u \in Threads : Inside(t, l) /\ Inside(u, l) => t = u

\* The futex word is set exactly while some thread is inside: a mutex is
\* never left locked with nobody to unlock it, and never free with an owner.
FutexMeansInside ==
    \A l \in Locks : futex[l] = 1 <=> \E t \in Threads : Inside(t, l)

\* assert(info.owner == N00B_NO_OWNER) of n00b_lock_acquire_accounting never
\* fails: whoever wins the futex word finds the data word already vacated.
VacatedBeforeFreed ==
    \A t \in Threads : pc[t] = "account" => data[target[t]].owner = NoOwner

\* should_wake counts the threads in the slow path, so that n00b_mutex_unlock
\* skips the wake only when there is nobody to wake ("no missed
\* notifications", mutex.nc:7-11).
WaitersCounted ==
    \A l \in Locks :
        shouldWake[l] = Cardinality({t \in Threads : InSlowPath(t, l)})

\* A thread that has run n00b_release_locks_on_thread_exit is inside no
\* mutex, however deeply it had nested them and in whatever order it had
\* given others back.
ExitReleasesAll ==
    \A t \in Threads : pc[t] = "gone" => \A l \in Locks : ~Inside(t, l)

\* The exit handler's loop ends.
ExitCompletes ==
    \A t \in Threads : leaving[t] ~> (pc[t] = "gone" \/ ~Running)

\* A thread that asks for a mutex gets it, although nothing orders the
\* contenders, once the others stop asking (their calls are bounded).
WaiterServed ==
    \A t \in Threads, l \in Locks :
        Waiting(t, l) ~> (Owns(t, l) \/ CallersDeadlocked \/ ~Running)

\* assert(!atomic_read(&mutex->futex)) of n00b_mutex_unlock: the word it
\* has just cleared still reads 0.
ClearedStaysClear ==
    \A t \in Threads : pc[t] = "check" => futex[target[t]] = 0

-----------------------------------------------------------------------------
(***************************************************************************)
(* The mutex implements the reentrant lock: holding it is being inside it, *)
(* and the depth is the nesting level, or 1 while the data word is not yet *)
(* written or already erased.                                              *)
(***************************************************************************)
HolderOf(l) ==
    IF \E t \in Threads : Inside(t, l)
    THEN CHOOSE t \in Threads : Inside(t, l)
    ELSE NoOwner

DepthOf(l) ==
    IF data[l].owner # NoOwner THEN data[l].nesting ELSE futex[l]

Abstract == INSTANCE ReentrantLock WITH
    holder <- [l \in Locks |-> HolderOf(l)],
    depth <- [l \in Locks |-> DepthOf(l)]

\* Every step of every interleaving is a step of the reentrant lock, or
\* leaves holders and depths alone.
ImplementsReentrantLock == Abstract!Spec
=============================================================================
