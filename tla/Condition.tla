------------------------------ MODULE Condition ------------------------------
(***************************************************************************)
(* One of n00b's condition variables (src/mt/condition.nc).                *)
(*                                                                         *)
(* A condition variable is a lock with a word, wait_queue, that counts its *)
(* waiters and has a bit for a notification in progress, and with a word   *)
(* notify_done by which a waiter tells the notifier that it is done.  Its  *)
(* lock is a Mutex; n00b_condition_lock never nests it, so an owner is all *)
(* its state (MutexProofs shows that a Mutex is such a lock).  A futex     *)
(* wait without a timeout returns at once (its timespec is zero), so that  *)
(* waiters poll.  The value a notification passes is left out.             *)
(***************************************************************************)
EXTENDS Integers, FiniteSets

CONSTANTS
    Threads,
    NoOwner,
    Bit,        \* N00B_CV_NOTIFY_IN_PROGRESS, which is N00B_GIL: 2^30, scaled down
    Maxes,      \* the max parameters of notifications
    MaxCalls    \* bound: how many calls a thread makes

ASSUME ConditionAssumption ==
    /\ IsFiniteSet(Threads)
    /\ NoOwner \notin Threads
    /\ Bit \in Nat \ {0}
    /\ Maxes \subseteq 1 .. 2 * Bit - 1
    /\ MaxCalls \in Nat

VARIABLES
    owner,       \* the lock
    queue,       \* wait_queue: how many wait
    inProgress,  \* wait_queue: N00B_CV_NOTIFY_IN_PROGRESS
    done,        \* notify_done
    num,         \* num_to_wake
    pc,          \* thread -> where it is in the code below
    waking,      \* thread -> base_wait's local of that name
    old,         \* thread -> what it read of num_to_wake
    calls        \* thread -> how many more calls it will make

cvVars == <<queue, inProgress, done, num>>
localVars == <<waking, old>>
vars == <<owner, cvVars, localVars, pc, calls>>

\* num_to_wake is a signed 32-bit word: the bit is the one below its sign.
Nums == (-2 * Bit) .. (2 * Bit - 1)

\* Of a waiter, from its enqueuing until it counts itself out.
WaitPCs == {"waiting", "expired", "match", "load", "store", "signal", "barrier", "relock"}
\* Of a notifier, from the setting of the bit until it clears it.
NotifyPCs == {"reset", "notifying", "clear"}

PCs == {"idle", "announce", "finish"} \cup WaitPCs \cup NotifyPCs

\* The words of the condition variable keep their ranges: wait_queue never runs
\* below zero or above the number of threads, whichever way waiters leave.
TypeOK ==
    /\ owner \in Threads \cup {NoOwner}
    /\ queue \in 0 .. Cardinality(Threads)
    /\ inProgress \in BOOLEAN
    /\ done \in {0, 1}
    /\ num \in Nums
    /\ pc \in [Threads -> PCs]
    /\ waking \in [Threads -> BOOLEAN]
    /\ old \in [Threads -> Nums]
    /\ calls \in [Threads -> 0 .. MaxCalls]

\* n00b_condition_init
Init ==
    /\ owner = NoOwner
    /\ queue = 0
    /\ inProgress = FALSE
    /\ done = 0
    /\ num = 0
    /\ pc = [t \in Threads |-> "idle"]
    /\ waking = [t \in Threads |-> FALSE]
    /\ old = [t \in Threads |-> 0]
    /\ calls = [t \in Threads |-> MaxCalls]

Goto(t, label) == pc' = [pc EXCEPT ![t] = label]
Call(t) == pc[t] = "idle" /\ calls[t] > 0 /\ calls' = [calls EXCEPT ![t] = @ - 1]

\* n00b_condition_lock gets the lock, or has it already.
GetsLock(t) == owner \in {NoOwner, t}

\* n00b_condition_lock and n00b_condition_unlock, by users.
Lock(t) ==
    /\ Call(t) /\ GetsLock(t)
    /\ owner' = t
    /\ UNCHANGED <<cvVars, localVars, pc>>

Unlock(t) ==
    /\ pc[t] = "idle" /\ owner = t
    /\ owner' = NoOwner
    /\ UNCHANGED <<cvVars, localVars, pc, calls>>

-----------------------------------------------------------------------------
(* base_wait                                                               *)

\* With the lock, the waiter counts itself in; then it drops the lock.
Wait(t) ==
    /\ Call(t) /\ GetsLock(t)
    /\ queue' = queue + 1
    /\ owner' = NoOwner
    /\ Goto(t, "waiting")
    /\ UNCHANGED <<inProgress, done, num, localVars>>

\* It sees that a notification is in progress.
Poll(t) ==
    /\ pc[t] = "waiting" /\ inProgress
    /\ Goto(t, "match")
    /\ UNCHANGED <<owner, cvVars, localVars, calls>>

\* Mutant: a wait that times out stays counted.
CountOut_Forgotten == UNCHANGED queue
\* Mutant: ... or is counted out twice.
CountOut_Twice == queue' = queue - 2

CountOut == queue' = queue - 1

\* It sees none in progress, and then that its time, if it has one, is up.
Expire(t) ==
    /\ pc[t] = "waiting" /\ ~inProgress
    /\ Goto(t, "expired")
    /\ UNCHANGED <<owner, cvVars, localVars, calls>>

\* It counts itself out and returns, without the lock, even if a notification
\* has begun meanwhile.
TimeOut(t) ==
    /\ pc[t] = "expired"
    /\ CountOut
    /\ Goto(t, "idle")
    /\ UNCHANGED <<owner, inProgress, done, num, localVars, calls>>

\* Is the notification for it?  The predicate is the user's.
Match(t) ==
    /\ pc[t] = "match"
    /\ \E wantToWake \in BOOLEAN : waking' = [waking EXCEPT ![t] = wantToWake]
    /\ Goto(t, "load")
    /\ UNCHANGED <<owner, cvVars, old, calls>>

\* remaining = cv->num_to_wake-- is a load and a store.
Load(t) ==
    /\ pc[t] = "load"
    /\ old' = [old EXCEPT ![t] = num]
    /\ Goto(t, "store")
    /\ UNCHANGED <<owner, cvVars, waking, calls>>

Decrement(n) == IF n = -2 * Bit THEN 2 * Bit - 1 ELSE n - 1

\* remaining, with the bit masked out, is zero.
NoneRemain(n) == n \in {0, Bit}

\* Leave the loop if it wakes, or begin it over again.  The loop does not read
\* wait_queue again: once it has seen the bit, it goes back to the predicate.
LoopOr(t) == Goto(t, IF waking[t] THEN "barrier" ELSE "match")

Store(t) ==
    /\ pc[t] = "store"
    /\ num' = Decrement(old[t])
    /\ old' = [old EXCEPT ![t] = 0]
    /\ IF NoneRemain(old[t]) THEN Goto(t, "signal") ELSE LoopOr(t)
    /\ UNCHANGED <<owner, queue, inProgress, done, waking, calls>>

\* With none remaining, the waiter tells the notifier.
Signal(t) ==
    /\ pc[t] = "signal"
    /\ done' = 1
    /\ LoopOr(t)
    /\ UNCHANGED <<owner, queue, inProgress, num, localVars, calls>>

\* A waiter that wakes waits until the notifier has seen notify_done.
Barrier(t) ==
    /\ pc[t] = "barrier" /\ done = 0
    /\ Goto(t, "relock")
    /\ waking' = [waking EXCEPT ![t] = FALSE]
    /\ UNCHANGED <<owner, cvVars, old, calls>>

\* It takes the lock, counts itself out and returns, without the lock if the
\* caller asked for that.
Relock(t, autoUnlock) ==
    /\ pc[t] = "relock" /\ GetsLock(t)
    /\ CountOut
    /\ owner' = IF autoUnlock THEN NoOwner ELSE t
    /\ Goto(t, "idle")
    /\ UNCHANGED <<inProgress, done, num, localVars, calls>>

-----------------------------------------------------------------------------
(* internal_cv_notify                                                      *)

\* With the lock, the notifier says what it has to say.  It is done at once
\* when nobody waits.  (It masks N00B_GIL out of what it reads, which is the
\* same bit as N00B_CV_NOTIFY_IN_PROGRESS.)
Notify(t, max, autoUnlock) ==
    /\ Call(t) /\ GetsLock(t)
    /\ num' = max
    /\ \/ queue = 0 /\ owner' = (IF autoUnlock THEN NoOwner ELSE t) /\ UNCHANGED pc
       \/ queue # 0 /\ owner' = t /\ Goto(t, "announce")
    /\ UNCHANGED <<queue, inProgress, done, localVars>>

\* It sets the bit.
Announce(t) ==
    /\ pc[t] = "announce"
    /\ inProgress' = TRUE
    /\ Goto(t, "reset")
    /\ UNCHANGED <<owner, queue, done, num, localVars, calls>>

\* Mutant: the lock is kept for the caller.
DropLock_Kept == UNCHANGED owner

DropLock == owner' = NoOwner

\* It resets notify_done, and drops the lock whatever its caller wanted.
Reset(t) ==
    /\ pc[t] = "reset"
    /\ done' = 0
    /\ DropLock
    /\ Goto(t, "notifying")
    /\ UNCHANGED <<queue, inProgress, num, localVars, calls>>

\* It waits for notify_done.
Notified(t) ==
    /\ pc[t] = "notifying" /\ done = 1
    /\ Goto(t, "clear")
    /\ UNCHANGED <<owner, cvVars, localVars, calls>>

\* Mutant: the bit is left set.
ClearBit_Forgotten == UNCHANGED inProgress

ClearBit == inProgress' = FALSE

Clear(t) ==
    /\ pc[t] = "clear"
    /\ ClearBit
    /\ Goto(t, "finish")
    /\ UNCHANGED <<owner, queue, done, num, localVars, calls>>

\* It clears notify_done.  It no longer has a lock to drop.
Finish(t) ==
    /\ pc[t] = "finish"
    /\ done' = 0
    /\ Goto(t, "idle")
    /\ UNCHANGED <<owner, queue, inProgress, num, localVars, calls>>

-----------------------------------------------------------------------------

\* What a thread does of its own accord; not every wait has a timeout.
Choice(t) ==
    \/ Lock(t) \/ Wait(t) \/ Expire(t)
    \/ \E max \in Maxes, autoUnlock \in BOOLEAN :
          Notify(t, max, autoUnlock)

Progress(t) ==
    \/ Unlock(t) \/ Poll(t) \/ TimeOut(t) \/ Match(t) \/ Load(t) \/ Store(t) \/ Signal(t)
    \/ Barrier(t) \/ \E autoUnlock \in BOOLEAN : Relock(t, autoUnlock)
    \/ Announce(t) \/ Reset(t) \/ Notified(t) \/ Clear(t) \/ Finish(t)

Next == \E t \in Threads : Choice(t) \/ Progress(t)

Spec == Init /\ [][Next]_vars

\* The OS runs every thread, and users unlock what they have locked.
FairSpec == Spec /\ \A t \in Threads : WF_vars(Progress(t))

-----------------------------------------------------------------------------
(* Properties.                                                             *)

\* wait_queue counts the waiters exactly, whichever way each of them leaves:
\* a notifier that finds it zero does not notify at all.
QueueCounts == queue = Cardinality({t \in Threads : pc[t] \in WaitPCs})

\* Whoever waits, for a notification, for the barrier or for notify_done,
\* has dropped the lock, so that the thread it waits for can take it.
SleepersHoldNoLock ==
    \A t \in Threads :
        pc[t] \in {"waiting", "expired", "barrier", "notifying"} => owner # t

\* The bit is set only while some notifier is at work, also with several
\* notifiers that set and clear it: who begins to wait after a notification
\* is over waits for the next one.
ProgressHasNotifier ==
    inProgress => \E t \in Threads : pc[t] \in NotifyPCs

\* "When producers want to wake a single consumer and pass back a single
\* value (a notify_one())" (condition.h:19-20), and "Waiters are done with
\* their process, and all queing up. We calculate the result and auto-unlock"
\* (condition.nc:256-257): a notification that has woken a waiter gets there.
NotifyReturns ==
    \A n, w \in Threads :
        pc[n] = "notifying" /\ pc[w] = "barrier" ~> pc[n] = "idle"
=============================================================================
